---- MODULE Spec2Model ----
(***************************************************************************)
(* A model of richapi's exception-discovery compiler                       *)
(* (src/richapi/exc_parser): the call-graph walker with its class-level    *)
(* memoization table (compiler.py), the raise-site extractor and the       *)
(* schema merger (openapi.py, protocol.py).                                *)
(*                                                                         *)
(* Strings that the code inspects character by character (module names,    *)
(* scan-scope prefixes) are sequences of one-character strings.            *)
(***************************************************************************)
EXTENDS Integers, Sequences, FiniteSets, TLC

VARIABLES
    calls,        \* the analysed program: function -> the function its body calls
    form2,        \* the analysed program: the raise statement written in F2
    visited,      \* ExceptionFinder.visited: function -> memoized raise-site list
    stack,        \* the nested calls of _find_explicit_expection_recursively
    nvisit,       \* per function: ExceptionFinder instances created (bodies
                  \* visited) since the current top-level operation began
    op,           \* the top-level operation in progress and its arguments
    pass,         \* compile_openapi_from_fastapi's locals
    last,         \* the most recent finished top-level operation
    prev,         \* the top-level operation finished before that one
    extract_in,   \* an argument pair of _resolve_status_and_detail_from_exc_type
    extract_out,  \* what it returned for that pair
    merge_in,     \* arguments of _fill_openapi_with_excpetions
    merge_out,    \* the document after the call, and whether it raised
    enrich_in,    \* the arguments of enrich_openapi and the caller frames
    enrich_out,   \* whether it raised, and the scan scope its closure holds
    filter_in,    \* the (class, raise node) pairs collected for one route
    filter_out,   \* the route's document after the filter and the merge
    app,          \* app.routes of the application being compiled
    install,      \* where third-party packages are installed: "venv", a
                  \* virtual environment, or "system", the interpreter's own
                  \* site-packages directory below its standard library
    path_in,      \* the node given to _resolve_full_attribute_path
    path_out,     \* what it returned
    scope_in,     \* a module name and the scan-scope prefixes
    scope_out,    \* whether the module is in scope and may be visited
    merge_again   \* the document after a second merge of the same exceptions

walker_vars == <<calls, form2, visited, stack, nvisit, op, pass, last, prev>>
extract_vars == <<extract_in, extract_out>>
merge_vars == <<merge_in, merge_out>>
enrich_vars == <<enrich_in, enrich_out>>
filter_vars == <<filter_in, filter_out>>
\* what no action of the walker or of the compile pass changes
path_vars == <<path_in, path_out>>
scope_vars == <<scope_in, scope_out>>
env_vars == <<app, install, path_vars, scope_vars, merge_again>>
fixed_vars == <<enrich_vars, filter_vars, env_vars>>
vars == <<calls, form2, visited, stack, nvisit, op, pass, last, prev,
          extract_in, extract_out, merge_in, merge_out, fixed_vars>>

(***************************************************************************)
(* Bounds of the model.                                                    *)
(***************************************************************************)
\* The interpreter's recursion limit, counted in nested analyses.
RecursionLimit == 3
\* Direct calls of find_explicit_exceptions in one behaviour.
MaxDirect == 2
\* Calls of compile_openapi_from_fastapi in one behaviour.
MaxPasses == 2
\* the most positional arguments of a raise expression
MaxArgs == 2
\* the most exceptions discovered for a route
MaxExceptions == 3

(***************************************************************************)
(* Strings.                                                                *)
(***************************************************************************)
Range(s) == {s[i] : i \in 1..Len(s)}

\* str.startswith
StartsWith(s, prefix) ==
    /\ Len(prefix) <= Len(s)
    /\ \A i \in 1..Len(prefix) : s[i] = prefix[i]

MainModule == <<"_", "_", "m", "a", "i", "n", "_", "_">>
FastapiModule == <<"f", "a", "s", "t", "a", "p", "i">>
AppModule == <<"a", "p", "p">>
LibModule == <<"l", "i", "b">>
\* a module of the application that is deployed without its source file
CompiledModule == <<"a", "p", "p", ".", "c">>
FastapiSecurity ==
    <<"f", "a", "s", "t", "a", "p", "i", ".", "s", "e", "c", "u", "r", "i", "t", "y">>

(***************************************************************************)
(* The analysed program.  Three functions: F1 and F2 are defined in module *)
(* "app", F3 in the third-party module "lib".  The body of a function is   *)
(* an optional call followed by its own raise statement.                   *)
(***************************************************************************)
Funcs == {"F1", "F2", "F3"}
NoCall == "none"


\* modules of the standard library
StdlibModules == {<<"j", "s", "o", "n">>}
\* modules of the third-party packages, installed in site-packages
SitePackages == {LibModule, FastapiSecurity}

CallChoices(f) ==
    CASE f = "F1" -> {NoCall, "F1", "F2", "F3"}
      [] f = "F2" -> {NoCall, "F1", "F3"}
      [] f = "F3" -> {NoCall, "F2"}



(***************************************************************************)
(* Python values: None, integers and strings.  A string is a sequence of   *)
(* tokens: words and the separators " ", "_" and "-".                      *)
(***************************************************************************)
PyNone == [t |-> "None", n |-> 0, s |-> <<>>]
PyInt(n) == [t |-> "int", n |-> n, s |-> <<>>]
PyStr(s) == [t |-> "str", n |-> 0, s |-> s]
\* the marker of an attribute or argument that is not there
Absent == [t |-> "absent", n |-> 0, s |-> <<>>]

\* bool(v)
Truthy(v) ==
    CASE v.t = "None" -> FALSE
      [] v.t = "absent" -> FALSE
      [] v.t = "int" -> v.n # 0
      [] v.t = "str" -> v.s # <<>>

\* int(v): [ok, n]; int(None) is a TypeError, int("oops") a ValueError
int(v) == IF v.t = "int" THEN [ok |-> TRUE, n |-> v.n] ELSE [ok |-> FALSE, n |-> 0]

\* the status codes http.HTTPStatus knows, with their phrases
HTTPStatusPhrase(n) ==
    CASE n = 404 -> <<"Not", " ", "Found">>
      [] n = 407 -> <<"Proxy", " ", "Authentication", " ", "Required">>
      [] n = 418 -> <<"I'm", " ", "a", " ", "Teapot">>
      [] n = 500 -> <<"Internal", " ", "Server", " ", "Error">>
      [] OTHER -> <<>>

\* getattr(fastapi.status, name, None)
fastapi_status(name) ==
    CASE name = "HTTP_404_NOT_FOUND" -> PyInt(404)
      [] name = "HTTP_500_INTERNAL_SERVER_ERROR" -> PyInt(500)
      [] OTHER -> PyNone

(***************************************************************************)
(* Exception classes.  init names the constructor's signature:             *)
(*   "http"     HTTPException.__init__(status_code, detail=None,           *)
(*              headers=None)                                              *)
(*   "defaults" __init__(status_code=407, detail="WOW!")                   *)
(*   "noargs"   BaseHTTPException.__init__()                               *)
(* cstatus and cdetail are the class attributes status_code and detail     *)
(* (Absent when the class does not declare them); schema_method says       *)
(* whether the class has get_json_schema; http whether it derives from     *)
(* starlette's HTTPException.                                              *)
(***************************************************************************)
ExcClass(name, init, cstatus, cdetail, schema_method, http) ==
    [name |-> name, init |-> init, cstatus |-> cstatus, cdetail |-> cdetail,
     schema_method |-> schema_method, http |-> http]

\* class FirstException(HTTPException): ...
PlainA == ExcClass("A", "http", Absent, Absent, FALSE, TRUE)
PlainB == ExcClass("B", "http", Absent, Absent, FALSE, TRUE)
PlainC == ExcClass("C", "http", Absent, Absent, FALSE, TRUE)
\* class NoNeedParanthesis(HTTPException) with defaulted parameters
NoNeedParanthesis == ExcClass("NoNeedParanthesis", "defaults", Absent, Absent, FALSE, TRUE)
\* an HTTPException subclass declaring status_code and detail in its body
ClsAttr == ExcClass("ClsAttr", "http", PyInt(500), PyStr(<<"boom">>), FALSE, TRUE)
\* class FifthException(BaseHTTPException): status_code = 405; detail = ...
FifthException ==
    ExcClass("FifthException", "noargs", PyInt(405), PyStr(<<"i", " ", "hate">>), TRUE, TRUE)

\* fastapi.HTTPException
HTTPException == ExcClass("HTTPException", "http", Absent, Absent, FALSE, TRUE)
\* class DomainError(Exception): status_code = 418; detail = "nope"
DomainError == ExcClass("DomainError", "noargs", PyInt(418), PyStr(<<"nope">>), FALSE, FALSE)

hasattr(cls, attr) ==
    CASE attr = "status_code" -> cls.cstatus.t # "absent"
      [] attr = "detail" -> cls.cdetail.t # "absent"
      [] attr = "get_json_schema" -> cls.schema_method

(***************************************************************************)
(* Raise statements (ast.Raise).  exc is BareRaise, a name (`raise E`), or *)
(* a call `raise E(args, keywords)`.  An argument node is a Constant with  *)
(* its value or some other expression; a keyword has its name and a value  *)
(* node that is a Constant, an Attribute, a Name or some other expression. *)
(***************************************************************************)
BareRaise == [node |-> "None", args |-> <<>>, keywords |-> <<>>]
NameRaise == [node |-> "Name", args |-> <<>>, keywords |-> <<>>]
CallRaise(args, keywords) == [node |-> "Call", args |-> args, keywords |-> keywords]

Constant(v) == [node |-> "Constant", value |-> v, id |-> ""]
Attribute(attr) == [node |-> "Attribute", value |-> PyNone, id |-> attr]
Name(id) == [node |-> "Name", value |-> PyNone, id |-> id]
OtherExpr == [node |-> "Other", value |-> PyNone, id |-> ""]

keyword(arg, value) == [arg |-> arg, value |-> value]

\* results of the extraction: None, a (status_code, detail) pair, or an
\* exception that leaves the function
NoResult == [r |-> "None", status_code |-> 0, detail |-> PyNone]
Pair(status_code, detail) == [r |-> "pair", status_code |-> status_code, detail |-> detail]
Raised == [r |-> "raise", status_code |-> 0, detail |-> PyNone]

\* the loop over ast_exc.keywords: found_status_code, found_detail, kwargs
\* (the names of the other literal keywords), and whether int() raised
RECURSIVE scan_keywords(_, _, _)
scan_keywords(kws, i, acc) ==
    IF i > Len(kws) \/ acc.raised THEN acc
    ELSE LET kwarg == kws[i]
             v == kwarg.value
         IN  IF kwarg.arg = "status_code" THEN
                 IF v.node = "Constant" THEN
                     IF int(v.value).ok
                     THEN scan_keywords(kws, i + 1,
                              [acc EXCEPT !.found_status_code = PyInt(int(v.value).n)])
                     ELSE [acc EXCEPT !.raised = TRUE]
                 ELSE IF v.node \in {"Attribute", "Name"} THEN
                     scan_keywords(kws, i + 1,
                         [acc EXCEPT !.found_status_code = fastapi_status(v.id)])
                 ELSE scan_keywords(kws, i + 1, acc)
             ELSE IF kwarg.arg = "detail" THEN
                 IF v.node = "Constant"
                 THEN scan_keywords(kws, i + 1, [acc EXCEPT !.found_detail = v.value])
                 ELSE scan_keywords(kws, i + 1, acc)
             ELSE
                 IF v.node = "Constant"
                 THEN scan_keywords(kws, i + 1,
                          [acc EXCEPT !.kwargs = acc.kwargs \cup {kwarg.arg}])
                 ELSE scan_keywords(kws, i + 1, acc)

\* exc_type(*args, **kwargs): whether the constructor returns, and the
\* status_code and detail attributes of the object it returns
construct(exc_type, args, kwargs) ==
    LET failed == [ok |-> FALSE, status_code |-> PyNone, detail |-> PyNone]
        built(status_code, detail) ==
            \* HTTPException.__init__: a None detail becomes the phrase of
            \* http.HTTPStatus(status_code), a ValueError for other codes
            IF detail.t = "None"
            THEN IF status_code.t = "int" /\ HTTPStatusPhrase(status_code.n) # <<>>
                 THEN [ok |-> TRUE, status_code |-> status_code,
                       detail |-> PyStr(HTTPStatusPhrase(status_code.n))]
                 ELSE failed
            ELSE [ok |-> TRUE, status_code |-> status_code, detail |-> detail]
    IN  CASE exc_type.init = "http" ->
                IF Len(args) = 0 \/ Len(args) > 3 \/ ~(kwargs \subseteq {"headers"})
                   \/ (Len(args) = 3 /\ kwargs # {})
                THEN failed
                ELSE built(args[1], IF Len(args) >= 2 THEN args[2] ELSE PyNone)
          [] exc_type.init = "defaults" ->
                IF Len(args) > 2 \/ kwargs # {}
                THEN failed
                ELSE built(IF Len(args) >= 1 THEN args[1] ELSE PyInt(407),
                           IF Len(args) >= 2 THEN args[2] ELSE PyStr(<<"WOW!">>))
          [] exc_type.init = "noargs" ->
                IF Len(args) > 0 \/ kwargs # {}
                THEN failed
                ELSE built(exc_type.cstatus, exc_type.cdetail)
          \* a builtin exception: the object has no status_code attribute
          [] exc_type.init = "builtin" -> failed

\* lines 162-204: the decision once the keywords and the constant
\* positional arguments (arg_values, of n_args positionals) are collected
decide(exc_type, is_call, n_args, kw, arg_values, status_arg, exc) ==
    IF kw.raised THEN Raised
    ELSE IF Truthy(kw.found_detail) /\ Truthy(kw.found_status_code)
    THEN Pair(kw.found_status_code.n, kw.found_detail)
    ELSE IF is_call /\ arg_values # <<>> /\ Len(arg_values) # n_args
    THEN \* some constant and some computed positional arguments
         IF Truthy(kw.found_status_code) THEN Pair(kw.found_status_code.n, PyNone)
         ELSE IF status_arg # <<>> THEN Pair(status_arg[1].n, PyNone)
         ELSE NoResult
    ELSE IF exc.ok /\ int(exc.status_code).ok
    THEN Pair(int(exc.status_code).n, exc.detail)
    ELSE \* the constructor or int() raised inside the try block
         IF Truthy(kw.found_status_code) THEN Pair(kw.found_status_code.n, PyNone)
         ELSE NoResult

\* lines 165-170: the values of the constant positional arguments
constant_values(ast_args) ==
    LET IsConstant(a) == a.node = "Constant"
        constants == SelectSeq(ast_args, IsConstant)
    IN  [i \in 1..Len(constants) |-> constants[i].value]

\* lines 187-188: the constructor call with the collected arguments
construct_with(exc_type, is_call, n_args, kw, arg_values) ==
    LET IsInt(v) == v.t = "int"
    IN  decide(exc_type, is_call, n_args, kw, arg_values, SelectSeq(arg_values, IsInt),
               construct(exc_type, arg_values, kw.kwargs))

\* lines 122-204: the inspection of the raise statement's arguments
resolve_from_raise_node(exc_type, ast_raise) ==
    IF ast_raise.node = "None" THEN NoResult
    ELSE IF ast_raise.node = "Call"
    THEN construct_with(exc_type, TRUE, Len(ast_raise.args),
             scan_keywords(ast_raise.keywords, 1,
                 [found_status_code |-> PyNone, found_detail |-> PyNone,
                  kwargs |-> {}, raised |-> FALSE]),
             constant_values(ast_raise.args))
    ELSE construct_with(exc_type, FALSE, 0,
             [found_status_code |-> PyNone, found_detail |-> PyNone,
              kwargs |-> {}, raised |-> FALSE], <<>>)

\* a variant that inspects the raise arguments before the class attributes
resolve_arguments_first(exc_type, ast_raise) ==
    IF resolve_from_raise_node(exc_type, ast_raise).r # "None"
    THEN resolve_from_raise_node(exc_type, ast_raise)
    ELSE IF hasattr(exc_type, "status_code") /\ hasattr(exc_type, "detail")
              /\ int(exc_type.cstatus).ok
    THEN Pair(int(exc_type.cstatus).n, exc_type.cdetail)
    ELSE NoResult

\* lines 115-120, then the inspection of the raise statement
resolve_status_and_detail_from_exc_type(exc_type, ast_raise) ==
    IF hasattr(exc_type, "status_code") /\ hasattr(exc_type, "detail")
    THEN IF int(exc_type.cstatus).ok
         THEN Pair(int(exc_type.cstatus).n, exc_type.cdetail)
         ELSE Raised
    ELSE resolve_from_raise_node(exc_type, ast_raise)

(***************************************************************************)
(* Schema names (protocol.py).                                             *)
(***************************************************************************)
\* str.title() on one token: separators and capitalised words are unchanged
Title(tok) ==
    CASE tok = "oops" -> "Oops"
      [] tok = "nope" -> "Nope"
      [] tok = "not" -> "Not"
      [] tok = "found" -> "Found"
      [] tok = "boom" -> "Boom"
      [] tok = "hate" -> "Hate"
      [] tok = "i" -> "I"
      [] tok = "a" -> "A"
      [] OTHER -> tok

\* str.split(sep): the components between the separators
RECURSIVE split(_, _)
split(string, sep) ==
    IF \A i \in 1..Len(string) : string[i] # sep THEN <<string>>
    ELSE LET i == CHOOSE j \in 1..Len(string) :
                      string[j] = sep /\ \A k \in 1..(j - 1) : string[k] # sep
         IN  <<SubSeq(string, 1, i - 1)>> \o split(SubSeq(string, i + 1, Len(string)), sep)

RECURSIVE join_title(_)
join_title(components) ==
    IF components = <<>> THEN <<>>
    ELSE [i \in 1..Len(Head(components)) |-> Title(Head(components)[i])]
             \o join_title(Tail(components))

try_to_camel_case(string) ==
    LET camel(sep) == LET components == split(string, sep)
                      IN  components[1] \o join_title(Tail(components))
        with_space == IF " " \in Range(string) THEN camel(" ") ELSE string
        snake == IF "_" \in Range(with_space) THEN camel("_") ELSE with_space
        kebab == IF "-" \in Range(snake) THEN camel("-") ELSE snake
    IN  kebab

\* HTTPExceptionSchema, None, or an exception leaving the builder.
\* response_schema_json is the model's title and its detail field's type:
\* Literal[detail], or PyNone for a free-form str.
NoSchema ==
    [r |-> "None", schema_name |-> <<>>, status_code |-> 0, response_schema_json |-> PyNone]
SchemaRaised ==
    [r |-> "raise", schema_name |-> <<>>, status_code |-> 0, response_schema_json |-> PyNone]
HTTPExceptionSchema(schema_name, status_code, detail) ==
    [r |-> "schema", schema_name |-> schema_name, status_code |-> status_code,
     response_schema_json |-> detail]

generic_json_schema_builder(cls, detail_arg, status_code_arg) ==
    LET detail == IF hasattr(cls, "detail") /\ Truthy(cls.cdetail) /\ detail_arg.t = "None"
                  THEN cls.cdetail ELSE detail_arg
        status_code ==
            IF hasattr(cls, "status_code") /\ Truthy(cls.cstatus) /\ status_code_arg.t = "None"
            THEN cls.cstatus ELSE status_code_arg
    IN  IF status_code.t = "None" THEN NoSchema
        ELSE IF detail.t = "None"
        THEN HTTPExceptionSchema(<<cls.name, "ErrorSchema">>, status_code.n, PyNone)
        ELSE IF detail.t # "str" THEN SchemaRaised   \* `" " in detail` is a TypeError
        ELSE HTTPExceptionSchema(try_to_camel_case(detail.s) \o <<"Schema">>,
                                 status_code.n, detail)

\* the assert of BaseHTTPException.get_json_schema on the builder's value
assert_schema(value) == IF value.r = "None" THEN SchemaRaised ELSE value

\* BaseHTTPException.get_json_schema
get_json_schema(cls) == assert_schema(generic_json_schema_builder(cls, PyNone, PyNone))

\* lines 211-216: the schema for the resolved pair
schema_of_pair(exc, status_detail_pair) ==
    CASE status_detail_pair.r = "None" -> NoSchema
      [] status_detail_pair.r = "raise" -> SchemaRaised
      [] status_detail_pair.r = "pair" ->
            generic_json_schema_builder(exc, status_detail_pair.detail,
                                        PyInt(status_detail_pair.status_code))

extract_json_schema(ast_node, exc) ==
    schema_of_pair(exc, resolve_status_and_detail_from_exc_type(exc, ast_node))

(***************************************************************************)
(* The API document.  paths maps <<path, method>> to that operation's      *)
(* responses, a function from status codes to response entries; components *)
(* maps schema names to their JSON.  A response entry either has no        *)
(* content/application-json/schema (content = FALSE), or holds one schema, *)
(* or a union {"anyOf": [...]} of schemas; a schema is named by the tokens *)
(* of its reference.                                                       *)
(***************************************************************************)
NoContent == [content |-> FALSE, anyOf |-> FALSE, schemas |-> <<>>]
Single(schema) == [content |-> TRUE, anyOf |-> FALSE, schemas |-> <<schema>>]
AnyOf(schemas) == [content |-> TRUE, anyOf |-> TRUE, schemas |-> schemas]

\* d[k] = v, adding the key when it is missing
Put(d, k, v) == [x \in DOMAIN d \cup {k} |-> IF x = k THEN v ELSE d[x]]

\* lines 255-285: the response entry for a status code after one reference
\* is merged into it; raised is the KeyError of an entry without content
\* a variant that leaves alone a response that already holds the reference
merged_entry_without_duplicate(responses, status_code, ref) ==
    IF status_code \notin DOMAIN responses
    THEN [entry |-> Single(ref), raised |-> FALSE]
    ELSE IF ~responses[status_code].content
    THEN [entry |-> NoContent, raised |-> TRUE]
    ELSE IF ref \in Range(responses[status_code].schemas)
    THEN [entry |-> responses[status_code], raised |-> FALSE]
    ELSE IF ~responses[status_code].anyOf
    THEN [entry |-> AnyOf(<<responses[status_code].schemas[1], ref>>), raised |-> FALSE]
    ELSE [entry |-> AnyOf(Append(responses[status_code].schemas, ref)), raised |-> FALSE]

merged_entry(responses, status_code, ref) ==
    IF status_code \notin DOMAIN responses
    THEN [entry |-> Single(ref), raised |-> FALSE]
    ELSE IF ~responses[status_code].content
    THEN [entry |-> NoContent, raised |-> TRUE]
    ELSE IF ~responses[status_code].anyOf
    THEN [entry |-> AnyOf(<<responses[status_code].schemas[1], ref>>), raised |-> FALSE]
    ELSE [entry |-> AnyOf(Append(responses[status_code].schemas, ref)), raised |-> FALSE]

\* api_schema["paths"][path][method]["responses"][status_code] = entry
store(api_schema, key, status_code, entry) ==
    [api_schema EXCEPT !.paths =
        Put(api_schema.paths, key, Put(api_schema.paths[key], status_code, entry))]

\* the loop `for method in methods` (lines 253-285) for one schema
RECURSIVE fill_methods(_, _, _, _, _)
RECURSIVE fill_method(_, _, _, _, _, _)
fill_method(api_schema, path, methods, i, schema, merged) ==
    IF merged.raised THEN [doc |-> api_schema, raised |-> TRUE]
    ELSE fill_methods(store(api_schema, <<path, methods[i]>>, schema.status_code,
                            merged.entry),
                      path, methods, i + 1, schema)

fill_methods(api_schema, path, methods, i, schema) ==
    IF i > Len(methods) THEN [doc |-> api_schema, raised |-> FALSE]
    ELSE IF <<path, methods[i]>> \notin DOMAIN api_schema.paths
    THEN [doc |-> api_schema, raised |-> TRUE]          \* KeyError
    ELSE fill_method(api_schema, path, methods, i, schema,
                     merged_entry(api_schema.paths[<<path, methods[i]>>],
                                  schema.status_code, schema.schema_name))

\* the schema is stored under its name whatever the registry holds
with_component_overwritten(api_schema, schema) ==
    [api_schema EXCEPT !.components =
        Put(api_schema.components, schema.schema_name, schema.response_schema_json)]

\* lines 238-248: the schema's JSON enters components unless its name is there
with_component(api_schema, schema) ==
    IF schema.schema_name \notin DOMAIN api_schema.components
    THEN [api_schema EXCEPT !.components =
             Put(api_schema.components, schema.schema_name, schema.response_schema_json)]
    ELSE api_schema

\* lines 227-231: the schema of one discovered exception
schema_for(item) ==
    IF hasattr(item.exc, "get_json_schema")
    THEN get_json_schema(item.exc)
    ELSE extract_json_schema(item.node, item.exc)

\* the loop `for exc, ast_node in exceptions` (lines 226-285)
RECURSIVE fill_exceptions(_, _, _, _, _)
RECURSIVE fill_exception(_, _, _, _, _, _)
RECURSIVE fill_rest(_, _, _, _, _, _)
fill_rest(filled, route, exceptions, i, added_schema_names, schema) ==
    IF filled.raised THEN filled
    ELSE fill_exceptions(filled.doc, route, exceptions, i + 1,
                         added_schema_names \cup {schema.schema_name})

fill_exception(api_schema, route, exceptions, i, added_schema_names, schema) ==
    IF schema.r = "raise" THEN [doc |-> api_schema, raised |-> TRUE]
    ELSE IF schema.r = "None" \/ schema.schema_name \in added_schema_names
    THEN fill_exceptions(api_schema, route, exceptions, i + 1, added_schema_names)
    ELSE fill_rest(fill_methods(with_component(api_schema, schema),
                                route.path, route.methods, 1, schema),
                   route, exceptions, i, added_schema_names, schema)

fill_exceptions(api_schema, route, exceptions, i, added_schema_names) ==
    IF i > Len(exceptions) THEN [doc |-> api_schema, raised |-> FALSE]
    ELSE fill_exception(api_schema, route, exceptions, i, added_schema_names,
                        schema_for(exceptions[i]))

fill_openapi_with_excpetions(api_schema, route, exceptions) ==
    fill_exceptions(api_schema, route, exceptions, 1, {})


(***************************************************************************)
(* Name resolution at raise sites (compiler.py).  An object is an          *)
(* exception class, some other class, or a value that is no class.         *)
(***************************************************************************)
NoClass == ExcClass("", "none", Absent, Absent, FALSE, FALSE)
ValueErrorClass == ExcClass("ValueError", "builtin", Absent, Absent, FALSE, FALSE)

ExcObject(cls) == [kind |-> "excclass", cls |-> cls]
NonClassObject == [kind |-> "object", cls |-> NoClass]
NoObject == [kind |-> "None", cls |-> NoClass]
\* the outcome of a lookup that raises NameError
Unbound == [kind |-> "unbound", cls |-> NoClass]

\* getattr(builtins, name, None)
builtins(name) ==
    CASE name = "ValueError" -> ExcObject(ValueErrorClass)
      [] name = "NotImplemented" -> NonClassObject
      [] OTHER -> NoObject

\* func.__globals__ of the analysed module: the exception classes it defines
func_globals(name) ==
    CASE name = "A" -> ExcObject(PlainA)
      [] name = "B" -> ExcObject(PlainB)
      [] name = "C" -> ExcObject(PlainC)
      [] name = "HTTPException" -> ExcObject(HTTPException)
      [] name = "ClsAttr" -> ExcObject(ClsAttr)
      [] name = "FifthException" -> ExcObject(FifthException)
      [] OTHER -> Unbound

\* eval(name, func_globals): the globals, then the builtins, else NameError
eval(name) ==
    IF func_globals(name).kind # "unbound" THEN func_globals(name)
    ELSE IF builtins(name).kind # "None" THEN builtins(name)
    ELSE Unbound

exctact_type(var_tyep) ==
    LET exc_type == eval(var_tyep)
    IN  IF exc_type.kind = "unbound" THEN NoObject          \* except BaseException
        ELSE IF exc_type.kind = "excclass" THEN exc_type
        ELSE builtins(var_tyep)                             \* fallback to builtins

(***************************************************************************)
(* The statements of the analysed program.                                 *)
(***************************************************************************)
RaiseStmt(name, node) == [name |-> name, node |-> node]

Oops == PyStr(<<"oops">>)
Nope == PyStr(<<"nope">>)

\* raise A(status_code=404, detail="oops")
RaiseA404 ==
    RaiseStmt("A", CallRaise(<<>>, <<keyword("status_code", Constant(PyInt(404))),
                                     keyword("detail", Constant(Oops))>>))
\* raise B(status_code=404, detail="nope")
RaiseB404 ==
    RaiseStmt("B", CallRaise(<<>>, <<keyword("status_code", Constant(PyInt(404))),
                                     keyword("detail", Constant(Nope))>>))
\* raise C(status_code=500, detail="oops")
RaiseC500 ==
    RaiseStmt("C", CallRaise(<<>>, <<keyword("status_code", Constant(PyInt(500))),
                                     keyword("detail", Constant(Oops))>>))
\* raise ValueError("oops")
RaiseValueError == RaiseStmt("ValueError", CallRaise(<<Constant(Oops)>>, <<>>))
\* raise NotImplemented
RaiseNotImplemented == RaiseStmt("NotImplemented", NameRaise)

\* raise B(status_code=None, detail="nope")
RaiseBNone ==
    RaiseStmt("B", CallRaise(<<>>, <<keyword("status_code", Constant(PyNone)),
                                     keyword("detail", Constant(Nope))>>))

Form2Choices == {RaiseB404, RaiseValueError, RaiseNotImplemented, RaiseBNone}

(***************************************************************************)
(* A second analysed program: module "app" with callables of every kind,   *)
(* and an HTTPBearer-like class of the fastapi package.  Objects are named *)
(* by the name their module binds them to.                                 *)
(*                                                                         *)
(*   class Svc:                           class K:                         *)
(*       def __init__(self): raise 400        a: Svc                       *)
(*       def __call__(self): raise 401        b: "Svc"                     *)
(*       def m(self): raise 402               def use(self): self.a.m()    *)
(*       def m1(self): raise 404              def use_str(self):           *)
(*       def m2(self): raise 405                  self.b.m()               *)
(*       @classmethod                         def use_undeclared(self):    *)
(*       def cm(cls): raise 406                   self.z.m()               *)
(*   inst = Svc()                             def other(self):             *)
(*   http_bearer = HTTPBearer()                   self.helper()            *)
(*   class View:                              def helper(self): raise 407  *)
(*       def get(self): raise 410                                          *)
(*   view = View()                                                         *)
(*                                                                         *)
(*   def call_class(): Svc()              def k_use(k: K): k.use()         *)
(*   def call_inst(): inst()              def k_use_str(k: K): k.use_str() *)
(*   def call_param(x: Svc): x.m()        def k_use_undeclared(k: K):      *)
(*   def call_ann(x: Annotated[Svc, 1]):      k.use_undeclared()           *)
(*       x.m()                            def k_other(k: K): k.other()     *)
(*   def call_ann_str(x: "Annotated[Svc, 1]"):                             *)
(*       x.m()                            def very_nested():               *)
(*   def chain(): Svc().m1().m2()             value = ClsAttr; raise value *)
(*   def rec(): rec(); raise 408          def nested():                    *)
(*   def reassign():                          try: very_nested()           *)
(*       exc = ClsAttr                        except ClsAttr:              *)
(*       exc = FifthException                     raise FifthException     *)
(*       raise exc                        def helper(): raise 409          *)
(*   def refresh(): helper()              def dep_outer(): raise 411       *)
(*   def dep_inner(): raise 412                                            *)
(***************************************************************************)
Function(name) == [o |-> "function", name |-> name]
Class(name) == [o |-> "class", name |-> name]
Instance(cls) == [o |-> "instance", name |-> cls]
\* a method bound to an instance or, for a classmethod, to the class
BoundMethod(name) == [o |-> "method", name |-> name]
\* object.__init__, the slot wrapper of a class that defines no __init__
SlotWrapper == [o |-> "wrapper", name |-> "__init__"]
\* a str: the value of a quoted or postponed annotation
Str(text) == [o |-> "str", name |-> text]
NoCallable == [o |-> "None", name |-> ""]

\* expression nodes: f(...), value.attr (Name is defined above)
Call(func) == [node |-> "Call", value |-> func, id |-> ""]
AttributeOf(value, attr) == [node |-> "Attribute", value |-> value, id |-> attr]

\* statements: an expression, `target = value`, `raise value`, try/except
Expr(value) ==
    [s |-> "Expr", target |-> "", value |-> value, node |-> BareRaise,
     body |-> <<>>, handlers |-> <<>>]
Assign(target, value) ==
    [s |-> "Assign", target |-> target, value |-> value, node |-> BareRaise,
     body |-> <<>>, handlers |-> <<>>]
Raise(value, node) ==
    [s |-> "Raise", target |-> "", value |-> value, node |-> node,
     body |-> <<>>, handlers |-> <<>>]
Try(body, handlers) ==
    [s |-> "Try", target |-> "", value |-> Name(""), node |-> BareRaise,
     body |-> body, handlers |-> handlers]

\* raise HTTPException(status_code=status_code, detail="<where>")
RaiseHTTP(status_code, where) ==
    Raise(Call(Name("HTTPException")),
          CallRaise(<<>>, <<keyword("status_code", Constant(PyInt(status_code))),
                            keyword("detail", Constant(PyStr(<<where>>)))>>))

\* `x.m()` for a name x
MethodCall(x, m) == Expr(Call(AttributeOf(Name(x), m)))
\* `self.a.m()`
AttributeMethodCall(x, a, m) == Expr(Call(AttributeOf(AttributeOf(Name(x), a), m)))

\* typing.Annotated[cls, ...]
Annotated(cls) == [o |-> "Annotated", name |-> cls]

\* a def statement: the module it is in, the class whose body it is in, its
\* decorator, its parameter annotations and its body
Def(module, owner, decorator, annotations, body) ==
    [module |-> module, owner |-> owner, decorator |-> decorator,
     annotations |-> annotations, body |-> body]

Methods ==
    {"Svc.__init__", "Svc.__call__", "Svc.m", "Svc.m1", "Svc.m2", "Svc.cm",
     "K.use", "K.use_str", "K.use_undeclared", "K.other", "K.helper", "View.get",
     "HTTPBearer.__init__", "HTTPBearer.__call__", "L.m"}

ModuleFunctions ==
    {"call_class", "call_inst", "call_param", "call_ann", "call_ann_str", "chain",
     "k_use", "k_use_str", "k_use_undeclared", "k_other", "very_nested", "nested",
     "reassign", "rec", "helper", "refresh", "dep_outer", "dep_inner",
     "make_guard", "guarded", "calls_guarded", "hidden", "around_hidden",
     "call_L", "k_helper"}

Classes == {"Svc", "K", "View", "HTTPBearer", "L"}

\* the class statements in the order of their source
ClassOrder == <<"Svc", "K", "View", "L", "HTTPBearer">>

\* the class of each module-level instance
Instances == [inst |-> "Svc", http_bearer |-> "HTTPBearer", view |-> "View"]

FunctionDef(f) ==
    CASE f = "Svc.__init__" -> Def(AppModule, "Svc", "", <<>>, <<RaiseHTTP(400, f)>>)
      [] f = "Svc.__call__" -> Def(AppModule, "Svc", "", <<>>, <<RaiseHTTP(401, f)>>)
      [] f = "Svc.m" -> Def(AppModule, "Svc", "", <<>>, <<RaiseHTTP(402, f)>>)
      [] f = "Svc.m1" -> Def(AppModule, "Svc", "", <<>>, <<RaiseHTTP(404, f)>>)
      [] f = "Svc.m2" -> Def(AppModule, "Svc", "", <<>>, <<RaiseHTTP(405, f)>>)
      [] f = "Svc.cm" -> Def(AppModule, "Svc", "classmethod", <<>>, <<RaiseHTTP(406, f)>>)
      [] f = "K.use" -> Def(AppModule, "K", "", <<>>, <<AttributeMethodCall("self", "a", "m")>>)
      [] f = "K.use_str" ->
            Def(AppModule, "K", "", <<>>, <<AttributeMethodCall("self", "b", "m")>>)
      [] f = "K.use_undeclared" ->
            Def(AppModule, "K", "", <<>>, <<AttributeMethodCall("self", "z", "m")>>)
      [] f = "K.other" -> Def(AppModule, "K", "", <<>>, <<MethodCall("self", "helper")>>)
      [] f = "K.helper" -> Def(AppModule, "K", "", <<>>, <<RaiseHTTP(407, f)>>)
      [] f = "View.get" -> Def(AppModule, "View", "", <<>>, <<RaiseHTTP(410, f)>>)
      [] f = "HTTPBearer.__init__" -> Def(FastapiSecurity, "HTTPBearer", "", <<>>, <<>>)
      [] f = "HTTPBearer.__call__" ->
            Def(FastapiSecurity, "HTTPBearer", "", <<>>, <<RaiseHTTP(403, f)>>)
      [] f = "call_class" -> Def(AppModule, "", "", <<>>, <<Expr(Call(Name("Svc")))>>)
      [] f = "call_inst" -> Def(AppModule, "", "", <<>>, <<Expr(Call(Name("inst")))>>)
      [] f = "call_param" ->
            Def(AppModule, "", "", ("x" :> Class("Svc")), <<MethodCall("x", "m")>>)
      [] f = "call_ann" ->
            Def(AppModule, "", "", ("x" :> Annotated("Svc")),
                <<MethodCall("x", "m")>>)
      [] f = "call_ann_str" ->
            Def(AppModule, "", "", ("x" :> Str("Annotated[Svc, 1]")),
                <<MethodCall("x", "m")>>)
      [] f = "chain" ->
            Def(AppModule, "", "", <<>>,
                <<Expr(Call(AttributeOf(Call(AttributeOf(Call(Name("Svc")), "m1")), "m2")))>>)
      [] f = "k_use" ->
            Def(AppModule, "", "", ("k" :> Class("K")), <<MethodCall("k", "use")>>)
      [] f = "k_use_str" ->
            Def(AppModule, "", "", ("k" :> Class("K")),
                <<MethodCall("k", "use_str")>>)
      [] f = "k_use_undeclared" ->
            Def(AppModule, "", "", ("k" :> Class("K")),
                <<MethodCall("k", "use_undeclared")>>)
      [] f = "k_other" ->
            Def(AppModule, "", "", ("k" :> Class("K")), <<MethodCall("k", "other")>>)
      [] f = "very_nested" ->
            Def(AppModule, "", "", <<>>,
                <<Assign("value", Name("ClsAttr")), Raise(Name("value"), NameRaise)>>)
      [] f = "nested" ->
            Def(AppModule, "", "", <<>>,
                <<Try(<<Expr(Call(Name("very_nested")))>>,
                      <<Raise(Name("FifthException"), NameRaise)>>)>>)
      [] f = "reassign" ->
            Def(AppModule, "", "", <<>>,
                <<Assign("exc", Name("ClsAttr")), Assign("exc", Name("FifthException")),
                  Raise(Name("exc"), NameRaise)>>)
      [] f = "rec" ->
            Def(AppModule, "", "", <<>>, <<Expr(Call(Name("rec"))), RaiseHTTP(408, f)>>)
      [] f = "helper" -> Def(AppModule, "", "", <<>>, <<RaiseHTTP(409, f)>>)
      [] f = "refresh" -> Def(AppModule, "", "", <<>>, <<Expr(Call(Name("helper")))>>)
      [] f = "dep_outer" -> Def(AppModule, "", "", <<>>, <<RaiseHTTP(411, f)>>)
      [] f = "dep_inner" -> Def(AppModule, "", "", <<>>, <<RaiseHTTP(412, f)>>)
      [] f = "make_guard" -> Def(AppModule, "", "", <<>>, <<RaiseHTTP(413, f)>>)
      [] f = "guarded" -> Def(AppModule, "", "make_guard", <<>>, <<>>)
      [] f = "calls_guarded" ->
            Def(AppModule, "", "", <<>>, <<Expr(Call(Name("guarded")))>>)
      [] f = "L.m" -> Def(AppModule, "L", "", <<>>, <<RaiseHTTP(416, f)>>)
      [] f = "call_L" ->
            Def(AppModule, "", "", ("x" :> Class("L")), <<MethodCall("x", "m")>>)
      [] f = "k_helper" ->
            Def(AppModule, "", "", ("k" :> Class("K")), <<MethodCall("k", "helper")>>)
      [] f = "hidden" -> Def(CompiledModule, "", "", <<>>, <<RaiseHTTP(414, f)>>)
      [] f = "around_hidden" ->
            Def(AppModule, "", "", <<>>, <<Expr(Call(Name("hidden"))), RaiseHTTP(415, f)>>)

\* a class statement: its module, the attribute annotations of its body and
\* the def statements of its body, by name
ClassDef(cls) ==
    CASE cls = "Svc" ->
            [module |-> AppModule, annotations |-> <<>>,
             body |-> [__init__ |-> "Svc.__init__", __call__ |-> "Svc.__call__",
                       m |-> "Svc.m", m1 |-> "Svc.m1", m2 |-> "Svc.m2", cm |-> "Svc.cm"]]
      [] cls = "K" ->
            [module |-> AppModule,
             annotations |-> [a |-> Class("Svc"), b |-> Str("Svc")],
             body |-> [use |-> "K.use", use_str |-> "K.use_str",
                       use_undeclared |-> "K.use_undeclared", other |-> "K.other",
                       helper |-> "K.helper"]]
      [] cls = "View" ->
            [module |-> AppModule, annotations |-> <<>>, body |-> [get |-> "View.get"]]
      [] cls = "L" ->
            [module |-> AppModule, annotations |-> <<>>, body |-> [m |-> "L.m"]]
      [] cls = "HTTPBearer" ->
            [module |-> FastapiSecurity, annotations |-> <<>>,
             body |-> [__init__ |-> "HTTPBearer.__init__",
                       __call__ |-> "HTTPBearer.__call__"]]

\* every callable of the second program, by name
Callables == Methods \cup ModuleFunctions \cup Classes \cup DOMAIN Instances

\* the object a name of the second program stands for
ObjectOf(name) ==
    IF name \in Classes THEN Class(name)
    ELSE IF name \in DOMAIN Instances THEN Instance(Instances[name])
    ELSE Function(name)

(***************************************************************************)
(* Name resolution at call sites (compiler.py).                            *)
(***************************************************************************)
IsCallable(obj) == obj.o # "None"

\* func.__qualname__.split(".")[0]: the class of a method, the name itself of
\* a module-level function
Owner(func) == IF FunctionDef(func).owner # "" THEN FunctionDef(func).owner ELSE func

Decorator(func) == FunctionDef(func).decorator

\* func.__globals__.get(name, None) in module "app", for the callables
module_globals(name) ==
    IF name \in Classes \cup DOMAIN Instances \cup ModuleFunctions
    THEN ObjectOf(name) ELSE NoCallable

\* obj.__annotations__
annotations(obj) ==
    CASE obj.o = "function" -> FunctionDef(obj.name).annotations
      [] obj.o = "class" -> ClassDef(obj.name).annotations
      [] OTHER -> <<>>

\* getattr(obj, attr, None)
\* a def statement of a class body, looked up through the class or, bound,
\* through an instance
method_of(decorator, name, bound) ==
    IF bound \/ decorator = "classmethod" THEN BoundMethod(name) ELSE Function(name)

\* the attribute of a class or an instance, from the class body
class_attribute(body, attr, bound) ==
    IF attr \in DOMAIN body THEN method_of(Decorator(body[attr]), body[attr], bound)
    ELSE IF attr = "__init__" THEN SlotWrapper ELSE NoCallable

getattr(obj, attr) ==
    CASE obj.o \in {"class", "instance"} ->
            class_attribute(ClassDef(obj.name).body, attr, obj.o = "instance")
      [] obj.o \in {"str", "exception"} ->
            IF attr = "__init__" THEN SlotWrapper ELSE NoCallable
      [] OTHER -> NoCallable

\* the parts of the dotted path of _resolve_full_attribute_path
RECURSIVE resolve_full_attribute_path(_)
resolve_full_attribute_path(node) ==
    CASE node.node = "Attribute" ->
            Append(resolve_full_attribute_path(node.value), node.id)
      [] node.node = "Call" -> resolve_full_attribute_path(node.value)
      [] node.node = "Name" -> <<node.id>>
      [] OTHER -> <<>>

\* result.__origin__ of an Annotated, the annotation itself otherwise
origin_of(result) ==
    IF result.o = "Annotated" THEN Class(result.name) ELSE result

annotation_in(annots, var_name) ==
    IF var_name \notin DOMAIN annots THEN NoCallable ELSE origin_of(annots[var_name])

retrieve_from_annotations(obj, var_name) == annotation_in(annotations(obj), var_name)

\* the last two fallbacks of _resolve_type_from_assigment for a str
exception_named(text) ==
    IF exctact_type(text).kind = "None" THEN NoCallable
    ELSE [o |-> "exception", name |-> text]

\* lines 279-293, for what the annotations gave for the name
type_of_annotated(text, result) ==
    IF result.o \in {"None", "str"}
    THEN exception_named(IF result.o = "None" THEN text ELSE result.name)
    ELSE result

resolve_type_of_name(text, func) ==
    type_of_annotated(text, retrieve_from_annotations(Function(func), text))

\* lines 272-278, for what the globals hold under the name
type_of_global(global, name, assignments, func) ==
    IF global.o # "None" THEN global
    ELSE resolve_type_of_name(IF name \in DOMAIN assignments THEN assignments[name]
                              ELSE name,
                              func)

resolve_type_from_assigment(resolved_value, assignments, func) ==
    IF resolved_value.o # "str" THEN resolved_value
    ELSE type_of_global(module_globals(resolved_value.name), resolved_value.name,
                        assignments, func)

\* only the first attribute of the chain is looked up
first_attribute_of(obj, attrs) ==
    SelectSeq([i \in 1..Len(attrs) |-> IF i = 1 THEN getattr(obj, attrs[i]) ELSE NoCallable],
              IsCallable)

\* [getattr(obj, attr, None) for attr in attrs], without the None
attributes_of(obj, attrs) ==
    SelectSeq([i \in 1..Len(attrs) |-> getattr(obj, attrs[i])], IsCallable)

\* lines 342-386: the head of the chain is self or cls
resolve_through_class(attr_class, parts) ==
    IF attr_class.o = "None" THEN <<>>
    ELSE attributes_of(attr_class, <<"__init__">> \o SubSeq(parts, 3, Len(parts)))

\* lines 329-340: parent_attr from the globals, the assignments, the annotations
parent_of(global, parent_part, func, assignments) ==
    IF global.o # "None" THEN global
    ELSE IF parent_part \in DOMAIN assignments THEN Str(assignments[parent_part])
    ELSE retrieve_from_annotations(Function(func), parent_part)

parent_attribute(parent_part, func, assignments) ==
    parent_of(module_globals(parent_part), parent_part, func, assignments)

\* lines 321-405, for the parts of the chain and the parent found for its head
\* lines 342-386, for the class found in the globals under the first part
\* of the qualified name of func
resolve_through_self(cls, parts) ==
    IF cls.o = "None" THEN <<>>
    ELSE resolve_through_class(retrieve_from_annotations(cls, parts[2]), parts)

resolve_attribute_chain(parts, parent_attr, func, assignments) ==
    IF parent_attr.o = "None"
    THEN IF parts[1] \in {"self", "cls"}
         THEN resolve_through_self(module_globals(Owner(func)), parts)
         ELSE <<>>
    ELSE attributes_of(resolve_type_from_assigment(parent_attr, assignments, func),
                       Tail(parts))

\* lines 307-319: a plain name, from the globals, then from the builtins
resolve_name(global, id) ==
    IF global.o # "None" THEN <<global>>
    ELSE IF builtins(id).kind # "None" THEN <<[o |-> "builtin", name |-> id]>>
    ELSE <<>>

\* lines 321-405: a dotted path, from its parts
resolve_parts(parts, func, assignments) ==
    resolve_attribute_chain(parts, parent_attribute(parts[1], func, assignments),
                            func, assignments)

resolve_functions_from_call_node(call_node, func, assignments) ==
    IF call_node.value.node = "Name"
    THEN resolve_name(module_globals(call_node.value.id), call_node.value.id)
    ELSE IF call_node.value.node = "Attribute"
    THEN resolve_parts(resolve_full_attribute_path(call_node.value), func, assignments)
    ELSE <<>>

RECURSIVE extract_node_name(_, _)
extract_node_name(node, assignments) ==
    CASE node.node = "Call" -> extract_node_name(node.value, assignments)
      [] node.node = "Name" ->
            IF node.id \in DOMAIN assignments THEN assignments[node.id] ELSE node.id
      [] node.node = "Attribute" -> "<dotted path>"
      [] OTHER -> ""

(***************************************************************************)
(* The visit of a function of the second program.  What a call site        *)
(* contributes depends on the function's text alone, so the visit is       *)
(* computed from the text: the calls to analyse and the raise statements,  *)
(* in the order the finder meets them.                                     *)
(***************************************************************************)
\* _find_all_class_exceptions after its scope check: __init__, then __call__,
\* each when the class body defines it
find_all_class_exceptions(cls) ==
    LET defined(attr) == attr \in DOMAIN ClassDef(cls).body
        present == SelectSeq(<<"__init__", "__call__">>, defined)
    IN  [i \in 1..Len(present) |->
            [k |-> "call", to |-> ClassDef(cls).body[present[i]], by |-> "class"]]

\* func.__name__: the name of the def statement
name_of(func) ==
    IF func \in Methods
    THEN CHOOSE attr \in DOMAIN ClassDef(Owner(func)).body :
            ClassDef(Owner(func)).body[attr] = func
    ELSE func

\* the def statement of the function itself
own_definition(module, func) == func

\* _find_in_module over the source of the module of func, for the name of
\* func: ast.walk goes breadth first, so a def statement of the module comes
\* before the def statements of the class bodies, and these come in the
\* order of the class statements
find_in_module(module, func) ==
    LET name == name_of(func)
        Defines(cls) == ClassDef(cls).module = module /\ name \in DOMAIN ClassDef(cls).body
        classes == SelectSeq(ClassOrder, Defines)
    IN  IF name \in Funcs THEN name
        ELSE IF name \in ModuleFunctions /\ FunctionDef(name).module = module THEN name
        ELSE ClassDef(classes[1]).body[name]

\* the def statement analysed for a callable: for __init__ and __call__
\* reached through their class, the one found in the source of the class;
\* for a function reached by visit_Call, the one found in the source of its
\* module
tree_for(module, func, by) ==
    IF by = "class" THEN func ELSE find_in_module(module, func)

\* the loop of visit_Call over the resolved objects: functions and classes
\* are analysed, every other object is passed over
RECURSIVE analysed(_)
analysed(func_objs) ==
    IF func_objs = <<>> THEN <<>>
    ELSE (CASE Head(func_objs).o = "function" ->
                    <<[k |-> "call", to |-> Head(func_objs).name, by |-> "name"]>>
            [] Head(func_objs).o = "class" -> find_all_class_exceptions(Head(func_objs).name)
            [] OTHER -> <<>>)
         \o analysed(Tail(func_objs))

\* visit_Call, then generic_visit into the callee expression; visit_Attribute
\* finds no exception class behind the names of the second program
RECURSIVE visit_Call(_, _, _)
visit_Call(node, func, assignments) ==
    CASE node.node = "Call" ->
            analysed(resolve_functions_from_call_node(node, func, assignments))
                \o visit_Call(node.value, func, assignments)
      [] node.node = "Attribute" -> visit_Call(node.value, func, assignments)
      [] OTHER -> <<>>

NoVisit == [items |-> <<>>, assignments |-> <<>>, raised |-> <<>>, site |-> ""]

\* the finder after the visit of an expression under the given assignments
visited_with(node, func, visit, assignments) ==
    [visit EXCEPT !.assignments = assignments,
                  !.items = @ \o visit_Call(node, func, assignments)]

\* the first assignment to a name is kept
visit_Assign_once(stmt, func, visit, name) ==
    visited_with(stmt.value, func, visit,
                 IF name = "" \/ stmt.target \in DOMAIN visit.assignments
                 THEN visit.assignments
                 ELSE Put(visit.assignments, stmt.target, name))

\* self.assignments[target.id] = name, when the value has a name; then
\* generic_visit into the value
visit_Assign(stmt, func, visit, name) ==
    visited_with(stmt.value, func, visit,
                 IF name = "" THEN visit.assignments
                 ELSE Put(visit.assignments, stmt.target, name))

\* generic_visit over statements in document order; a try statement's body
\* comes before its handlers
RECURSIVE generic_visit(_, _, _)
RECURSIVE visit_statement(_, _, _)
visit_statement(stmt, func, visit) ==
    CASE stmt.s = "Expr" -> visited_with(stmt.value, func, visit, visit.assignments)
      [] stmt.s = "Assign" ->
            visit_Assign(stmt, func, visit, extract_node_name(stmt.value, visit.assignments))
      [] stmt.s = "Raise" ->
            [visit EXCEPT
                !.items = Append(@, [k |-> "raise", site |-> visit.site]),
                !.raised = Append(@, RaiseStmt(extract_node_name(stmt.value,
                                                                 visit.assignments),
                                               stmt.node))]
      [] stmt.s = "Try" ->
            generic_visit(stmt.handlers, func, generic_visit(stmt.body, func, visit))

generic_visit(stmts, func, visit) ==
    IF stmts = <<>> THEN visit
    ELSE generic_visit(Tail(stmts), func, visit_statement(Head(stmts), func, visit))

\* the decorator_list field of a def statement: @classmethod is a name,
\* @make_guard(...) is a call
decorator_list(func) ==
    CASE Decorator(func) = "" -> <<>>
      [] Decorator(func) = "classmethod" -> <<Name("classmethod")>>
      [] OTHER -> <<Call(Name(Decorator(func)))>>

\* generic_visit over the decorator_list field, which the def statement
\* holds after its body
RECURSIVE visit_decorators(_, _, _)
visit_decorators(decorators, func, visit) ==
    IF decorators = <<>> THEN visit
    ELSE visit_decorators(Tail(decorators), func,
                          visited_with(Head(decorators), func, visit, visit.assignments))

\* ExceptionFinder(func).visit(tree) for a function of the second program and
\* the def statement tree: the fields of the def statement in their order,
\* body then decorator_list
visit(func, tree) ==
    visit_decorators(decorator_list(tree), func,
                     generic_visit(FunctionDef(tree).body, func,
                                   [NoVisit EXCEPT !.site = tree]))

\* _get_tree: the source of a class is the class statement, which parses; the
\* source of a def statement parses unless it is indented
get_tree(func) ==
    IF func \in Classes \cup DOMAIN Instances THEN TRUE
    ELSE IF func \in Methods THEN FALSE
    ELSE func \in Funcs \/ FunctionDef(func).module # CompiledModule

\* is_absolutely_callable_object
is_absolutely_callable_object(func) == func \in Classes \cup DOMAIN Instances


\* the raise statement in the body of f
RaiseOf(f) ==
    CASE f = "F1" -> RaiseA404
      [] f = "F2" -> form2
      [] f = "F3" -> RaiseC500
      [] OTHER -> visit(f, f).raised[1]

\* inspect.getmodule(f).__name__
ModuleOf(f) ==
    CASE f \in {"F1", "F2"} -> AppModule
      [] f = "F3" -> LibModule
      [] f \in Classes -> ClassDef(f).module
      [] f \in DOMAIN Instances -> ClassDef(Instances[f]).module
      [] OTHER -> FunctionDef(f).module

\* what the def statement tree holds for the finder of f, in document
\* order; for a class or a callable instance, what
\* _find_all_class_exceptions analyses
TreeBody(f, tree) ==
    CASE f \in Funcs ->
            (IF calls[f] = NoCall THEN <<>>
             ELSE <<[k |-> "call", to |-> calls[f], by |-> "name"]>>)
                \o <<[k |-> "raise", site |-> f]>>
      [] f \in Classes -> find_all_class_exceptions(f)
      [] f \in DOMAIN Instances -> find_all_class_exceptions(Instances[f])
      [] OTHER -> visit(f, tree).items

\* the body of f under its own def statement
Body(f) == TreeBody(f, f)

(***************************************************************************)
(* The scan scope (compiler.py).                                           *)
(***************************************************************************)
is_in_module(module, target_modules) ==
    IF module = MainModule THEN TRUE
    ELSE LET dotted == IF "." \notin Range(module) THEN Append(module, ".") ELSE module
         IN  \E i \in 1..Len(target_modules) : StartsWith(dotted, target_modules[i])

\* find_spec(module_name).origin.startswith(sysconfig.get_paths()["stdlib"]):
\* the interpreter's own site-packages directory lies below that path
is_stdlib(module_name) ==
    \/ module_name \in StdlibModules
    \/ install = "system" /\ module_name \in SitePackages

should_be_visited(module, target_modules) ==
    ~(is_stdlib(module) \/ ~is_in_module(module, target_modules))


(***************************************************************************)
(* The application: its routes and the document of the default getter.     *)
(***************************************************************************)
\* fastapi's Dependant: the callable and the Dependants of its parameters
Dependant(call, dependencies) == [call |-> call, dependencies |-> dependencies]

\* the callables of a Dependant and of its dependencies, in pre-order
RECURSIVE build_dependency_tree(_)
RECURSIVE build_dependency_trees(_)
build_dependency_trees(dependencies) ==
    IF dependencies = <<>> THEN <<>>
    ELSE build_dependency_tree(Head(dependencies))
             \o build_dependency_trees(Tail(dependencies))

build_dependency_tree(dependant) ==
    (IF dependant.call # NoCall THEN <<dependant.call>> ELSE <<>>)
        \o build_dependency_trees(dependant.dependencies)

\* line 311: dependency_tree = build_dependency_tree(route.dependant)
dependency_tree(route) == build_dependency_tree(route.dependant)

APIRoute(path, include_in_schema, dependant) ==
    [path |-> path, methods |-> <<"get">>, include_in_schema |-> include_in_schema,
     dependant |-> dependant]

\* three routes whose handlers are F1, F2 and F3 and have no dependencies
DefaultRoutes ==
    << APIRoute("/a", TRUE, Dependant("F1", <<>>)),
       APIRoute("/b", TRUE, Dependant("F2", <<>>)),
       APIRoute("/c", FALSE, Dependant("F3", <<>>)) >>

Routes == app

EmptyDoc == [paths |-> <<>>, components |-> <<>>]

\* get_openapi(routes=app.routes): a fresh document with the framework's
\* "200" response for every operation of every included route
get_openapi ==
    LET keys == {<<Routes[r].path, Routes[r].methods[m]>> :
                    r \in {x \in 1..Len(Routes) : Routes[x].include_in_schema},
                    m \in {1}}
    IN  [paths |-> [k \in keys |-> (200 :> Single(<<"Response200">>))],
         components |-> <<>>]

\* the scan-scope arguments callers pass
TargetModuleChoices == {<<AppModule>>, <<AppModule, LibModule>>}

(***************************************************************************)
(* Top-level operations and their records.                                 *)
(***************************************************************************)
Idle(ndirect, npasses) ==
    [kind |-> "idle", target_modules |-> <<>>, ndirect |-> ndirect, npasses |-> npasses]
Running(kind, target_modules, ndirect, npasses) ==
    [kind |-> kind, target_modules |-> target_modules,
     ndirect |-> ndirect, npasses |-> npasses]

NoPass == [phase |-> "none", route |-> 0, dep |-> 0, exceptions |-> <<>>, doc |-> EmptyDoc,
           arg |-> <<>>]

\* a finished operation: what was called with what, and what came back
Finished(kind, outcome, arg, result, doc) ==
    [kind |-> kind, outcome |-> outcome, arg |-> arg, result |-> result, doc |-> doc]
NoOp == Finished("none", "none", <<>>, <<>>, EmptyDoc)

ZeroVisits == [f \in Funcs \cup Callables |-> 0]

(***************************************************************************)
(* The walker (compiler.py).                                               *)
(***************************************************************************)
\* no statement is left in the body
NoItem == [k |-> "none"]
Frame(func, tree) == [func |-> func, tree |-> tree, pc |-> 1, exceptions |-> <<>>]
Top == stack[Len(stack)]
FrameBody(frame) == TreeBody(frame.func, frame.tree)
AtItem == Top.pc <= Len(FrameBody(Top))
Item == FrameBody(Top)[Top.pc]

\* the first component of the pair visit_Raise records for a raise site
TypeAt(site) ==
    IF RaiseOf(site).node.node = "None" THEN NoObject
    ELSE exctact_type(RaiseOf(site).name)

\* ExceptionFinder.visit_Raise: the finder's list after the statement
visit_Raise(exceptions, site) ==
    IF RaiseOf(site).node.node = "None" THEN Append(exceptions, site)
    ELSE IF exctact_type(RaiseOf(site).name).kind # "None"
    THEN Append(exceptions, site)
    ELSE exceptions

\* find_explicit_exceptions up to the creation of the first finder: either
\* the list it returns at once, or the need to analyse func
find_explicit_exceptions(func, target_modules) ==
    IF ~should_be_visited(ModuleOf(func), target_modules)
    THEN [enter |-> FALSE, result |-> <<>>]
    ELSE IF ~get_tree(func)
    THEN [enter |-> FALSE, result |-> <<>>]
    ELSE IF func \in DOMAIN visited
    THEN [enter |-> FALSE, result |-> visited[func]]
    ELSE [enter |-> TRUE, result |-> <<>>]

\* what the caller of find_explicit_exceptions does with the returned list
Deliver(result) ==
    IF op.kind = "direct"
    THEN /\ op' = Idle(op.ndirect, op.npasses)
         /\ last' = Finished("direct", "returned", op.target_modules, result, EmptyDoc)
         /\ prev' = last
         /\ UNCHANGED pass
    ELSE /\ pass' = [pass EXCEPT !.exceptions = @ \o result, !.dep = @ + 1]
         /\ UNCHANGED <<op, last, prev>>

StartDirect(func, target_modules) ==
    /\ op.kind = "idle"
    /\ op.ndirect < MaxDirect
    /\ LET r == find_explicit_exceptions(func, target_modules)
       IN  IF r.enter
           THEN /\ stack' = <<Frame(func, func)>>
                /\ nvisit' = [ZeroVisits EXCEPT ![func] = 1]
                /\ op' = Running("direct", target_modules, op.ndirect + 1, op.npasses)
                /\ UNCHANGED <<last, prev>>
           ELSE /\ op' = Idle(op.ndirect + 1, op.npasses)
                /\ nvisit' = ZeroVisits
                /\ last' = Finished("direct", "returned", target_modules, r.result, EmptyDoc)
                /\ prev' = last
                /\ UNCHANGED stack
    /\ UNCHANGED <<calls, form2, visited, pass, extract_vars, merge_vars, fixed_vars>>

VisitRaise ==
    /\ stack # <<>>
    /\ \E body \in {FrameBody(Top)} :
        /\ Top.pc <= Len(body)
        /\ body[Top.pc].k = "raise"
        /\ stack' = [stack EXCEPT ![Len(stack)] =
                        [Top EXCEPT !.pc = @ + 1,
                                    !.exceptions = visit_Raise(@, body[Top.pc].site)]]
    /\ UNCHANGED <<calls, form2, visited, nvisit, op, pass, last, prev,
                   extract_vars, merge_vars, fixed_vars>>

\* inspect.getsource(module) raises OSError for a module without a source
\* file
getsource_raises(module) == module = CompiledModule

\* ExceptionFinder.visit_Call with room on the interpreter's stack
VisitCall ==
    /\ stack # <<>>
    /\ \E body \in {FrameBody(Top)} :
       \E item \in {IF Top.pc <= Len(body) THEN body[Top.pc] ELSE NoItem} :
       \E func_obj \in {IF item.k = "call" THEN item.to ELSE ""} :
        /\ item.k = "call"
        /\ ~(/\ should_be_visited(ModuleOf(func_obj), op.target_modules)
              /\ getsource_raises(ModuleOf(func_obj)))
        /\ IF ~should_be_visited(ModuleOf(func_obj), op.target_modules)
           THEN /\ stack' = [stack EXCEPT ![Len(stack)] = [Top EXCEPT !.pc = @ + 1]]
                /\ UNCHANGED nvisit
           ELSE IF func_obj \in DOMAIN visited
           THEN /\ stack' = [stack EXCEPT ![Len(stack)] =
                                [Top EXCEPT !.pc = @ + 1,
                                            !.exceptions = @ \o visited[func_obj]]]
                /\ UNCHANGED nvisit
           ELSE /\ Len(stack) < RecursionLimit
                /\ stack' = Append(stack,
                                   Frame(func_obj,
                                         tree_for(ModuleOf(func_obj), func_obj, item.by)))
                /\ nvisit' = [nvisit EXCEPT ![func_obj] = @ + 1]
    /\ UNCHANGED <<calls, form2, visited, op, pass, last, prev, extract_vars, merge_vars, fixed_vars>>

\* The interpreter's stack is exhausted by the next nested analysis.  The
\* RecursionError is caught by the `except Exception` of one of the running
\* _find_explicit_expection_recursively calls: the k-th from the top, the
\* handlers of the calls above it having run out of stack themselves.
RecursionError(k) ==
    /\ stack # <<>>
    /\ Len(stack) = RecursionLimit
    /\ \E body \in {FrameBody(Top)} :
       \E item \in {IF Top.pc <= Len(body) THEN body[Top.pc] ELSE NoItem} :
        /\ item.k = "call"
        /\ should_be_visited(ModuleOf(item.to), op.target_modules)
        /\ ~getsource_raises(ModuleOf(item.to))
        /\ item.to \notin DOMAIN visited
    /\ LET j == Len(stack) - k + 1
       IN  stack' = [SubSeq(stack, 1, j) EXCEPT ![j] =
                        [stack[j] EXCEPT !.pc = Len(FrameBody(stack[j])) + 1]]
    /\ UNCHANGED <<calls, form2, visited, nvisit, op, pass, last, prev,
                   extract_vars, merge_vars, fixed_vars>>

\* ExceptionFinder.visit_Call on a function of an in-scope module whose
\* source cannot be read: inspect.getsource(module) stands before the try
\* statement, so the OSError leaves visit_Call and every enclosing visit of
\* the running finder, and is caught by the `except Exception` around
\* finder.visit(tree), which ends the analysis of the calling function.
GetsourceError ==
    /\ stack # <<>>
    /\ \E body \in {FrameBody(Top)} :
       \E item \in {IF Top.pc <= Len(body) THEN body[Top.pc] ELSE NoItem} :
        /\ item.k = "call"
        /\ should_be_visited(ModuleOf(item.to), op.target_modules)
        /\ getsource_raises(ModuleOf(item.to))
        /\ stack' = [stack EXCEPT ![Len(stack)] = [Top EXCEPT !.pc = Len(body) + 1]]
    /\ UNCHANGED <<calls, form2, visited, nvisit, op, pass, last, prev,
                   extract_vars, merge_vars, fixed_vars>>

\* the end of _find_explicit_expection_recursively: memoize and return
Return ==
    /\ stack # <<>>
    /\ ~AtItem
    /\ visited' = IF is_absolutely_callable_object(Top.func) THEN visited
                   ELSE Put(visited, Top.func, Top.exceptions)
    /\ IF Len(stack) > 1
       THEN /\ stack' = [SubSeq(stack, 1, Len(stack) - 1) EXCEPT ![Len(stack) - 1] =
                            [stack[Len(stack) - 1] EXCEPT
                                !.pc = @ + 1, !.exceptions = @ \o Top.exceptions]]
            /\ UNCHANGED <<op, pass, last, prev>>
       ELSE /\ stack' = <<>>
            /\ Deliver(Top.exceptions)
    /\ UNCHANGED <<calls, form2, nvisit, extract_vars, merge_vars, fixed_vars>>


(***************************************************************************)
(* The compile pass (openapi.py).                                          *)
(***************************************************************************)
\* the filter of _extract_starlette_exceptions over the collected pairs;
\* issubclass raises TypeError when the first component is not a class
\* every class passes, whatever its bases
is_any_class(type) == type.kind = "excclass"

\* exc[0] is not None and issubclass(exc[0], StarletteHTTPException)
is_starlette_http(type) == type.kind = "excclass" /\ type.cls.http

\* the comprehension over the collected (class, raise node) pairs
starlette_http_exc_types(found) ==
    LET keep(item) == is_starlette_http(item.type)
        kept == SelectSeq(found, keep)
    IN  [raised |-> \E i \in 1..Len(found) : found[i].type.kind = "object",
         casted_exceptions |->
            [i \in 1..Len(kept) |-> [exc |-> kept[i].type.cls, node |-> kept[i].node]]]

extract_starlette_exceptions(exceptions) ==
    starlette_http_exc_types([i \in 1..Len(exceptions) |->
        [type |-> TypeAt(exceptions[i]), node |-> RaiseOf(exceptions[i]).node]])

\* compile_openapi_from_fastapi up to the call of the getter
StartCompile(target_module) ==
    /\ op.kind = "idle"
    /\ op.npasses < MaxPasses
    /\ op' = Running("compile", Append(target_module, FastapiModule),
                     op.ndirect, op.npasses + 1)
    /\ pass' = [phase |-> "begin", route |-> 1, dep |-> 1, exceptions |-> <<>>,
                doc |-> EmptyDoc, arg |-> target_module]
    /\ nvisit' = ZeroVisits
    /\ UNCHANGED <<calls, form2, visited, stack, last, prev, extract_vars, merge_vars, fixed_vars>>

\* openapi_json = open_api_getter(app)
GetOpenapi ==
    /\ op.kind = "compile"
    /\ pass.phase = "begin"
    /\ pass' = [pass EXCEPT !.phase = "routes", !.doc = get_openapi]
    /\ UNCHANGED <<calls, form2, visited, stack, nvisit, op, last, prev,
                   extract_vars, merge_vars, fixed_vars>>

InRouteLoop ==
    /\ op.kind = "compile"
    /\ pass.phase = "routes"
    /\ stack = <<>>
    /\ pass.route <= Len(Routes)

\* `if not route.include_in_schema: continue`
SkipRoute ==
    /\ InRouteLoop
    /\ ~Routes[pass.route].include_in_schema
    /\ pass' = [pass EXCEPT !.route = @ + 1]
    /\ UNCHANGED <<calls, form2, visited, stack, nvisit, op, last, prev,
                   extract_vars, merge_vars, fixed_vars>>

\* _find_explicit_exceptions(dep, target_module) for the next dependency
AnalyseDep ==
    /\ InRouteLoop
    /\ Routes[pass.route].include_in_schema
    /\ pass.dep <= Len(dependency_tree(Routes[pass.route]))
    /\ LET func == dependency_tree(Routes[pass.route])[pass.dep]
           r == find_explicit_exceptions(func, op.target_modules)
       IN  IF r.enter
           THEN /\ stack' = <<Frame(func, func)>>
                /\ nvisit' = [nvisit EXCEPT ![func] = @ + 1]
                /\ UNCHANGED pass
           ELSE /\ pass' = [pass EXCEPT !.exceptions = @ \o r.result, !.dep = @ + 1]
                /\ UNCHANGED <<stack, nvisit>>
    /\ UNCHANGED <<calls, form2, visited, op, last, prev, extract_vars, merge_vars, fixed_vars>>

\* the filter and _fill_openapi_with_excpetions for the route; an exception
\* of either leaves compile_openapi_from_fastapi before clear_cache
MergeRoute ==
    /\ InRouteLoop
    /\ Routes[pass.route].include_in_schema
    /\ pass.dep > Len(dependency_tree(Routes[pass.route]))
    /\ LET filtered == extract_starlette_exceptions(pass.exceptions)
           filled == fill_openapi_with_excpetions(pass.doc, Routes[pass.route],
                                                  filtered.casted_exceptions)
       IN  IF filtered.raised \/ filled.raised
           THEN /\ op' = Idle(op.ndirect, op.npasses)
                /\ last' = Finished("compile", "raised", pass.arg, <<>>, EmptyDoc)
                /\ prev' = last
                /\ pass' = NoPass
           ELSE /\ pass' = [pass EXCEPT !.doc = filled.doc, !.route = @ + 1,
                                        !.dep = 1, !.exceptions = <<>>]
                /\ UNCHANGED <<op, last, prev>>
    /\ UNCHANGED <<calls, form2, visited, stack, nvisit, extract_vars, merge_vars, fixed_vars>>

\* ExceptionFinder.clear_cache(); return openapi_json
FinishCompile ==
    /\ op.kind = "compile"
    /\ pass.phase = "routes"
    /\ stack = <<>>
    /\ pass.route > Len(Routes)
    /\ visited' = <<>>
    /\ op' = Idle(op.ndirect, op.npasses)
    /\ last' = Finished("compile", "returned", pass.arg, <<>>, pass.doc)
    /\ prev' = last
    /\ pass' = NoPass
    /\ UNCHANGED <<calls, form2, stack, nvisit, extract_vars, merge_vars, fixed_vars>>

(***************************************************************************)
(* Specification of the walker and the compile pass.                       *)
(***************************************************************************)
\* the inputs and outputs of the function-level specifications, at rest
NoExtract == [exc_type |-> NoClass, ast_raise |-> BareRaise]
NotExtracted == [done |-> FALSE, value |-> NoResult]
NoMerge == [api_schema |-> EmptyDoc, exceptions |-> <<>>]
NotFilled == [done |-> FALSE, doc |-> EmptyDoc, raised |-> FALSE]
NoEnrich == [explicit |-> FALSE, target_module |-> <<>>, frames |-> <<>>]
NotEnriched == [done |-> FALSE, raised |-> FALSE, target_module |-> <<>>]
NotFiltered == [done |-> FALSE, raised |-> FALSE, doc |-> EmptyDoc]

NotResolved == [done |-> FALSE, value |-> <<>>]
NoScope == [module |-> <<>>, target_modules |-> <<>>]
NotScoped == [done |-> FALSE, in_module |-> FALSE, visited |-> FALSE]

PathAtRest == path_in = OtherExpr /\ path_out = NotResolved
ScopeAtRest == scope_in = NoScope /\ scope_out = NotScoped
AgainAtRest == merge_again = NotFilled

\* no function-level operation has been given arguments
PureAtRest ==
    /\ enrich_in = NoEnrich
    /\ enrich_out = NotEnriched
    /\ filter_in = <<>>
    /\ filter_out = NotFiltered

Init ==
    /\ PathAtRest
    /\ ScopeAtRest
    /\ AgainAtRest
    /\ calls \in {c \in [Funcs -> Funcs \cup {NoCall}] : \A f \in Funcs : c[f] \in CallChoices(f)}
    /\ form2 \in Form2Choices
    /\ visited = <<>>
    /\ stack = <<>>
    /\ nvisit = ZeroVisits
    /\ op = Idle(0, 0)
    /\ pass = NoPass
    /\ last = NoOp
    /\ prev = NoOp
    /\ app = DefaultRoutes
    /\ install = "venv"
    /\ extract_in = NoExtract
    /\ extract_out = NotExtracted
    /\ merge_in = NoMerge
    /\ merge_out = NotFilled
    /\ PureAtRest

Next ==
    \/ \E func \in Funcs, target_modules \in TargetModuleChoices :
            StartDirect(func, target_modules)
    \/ \E target_module \in TargetModuleChoices : StartCompile(target_module)
    \/ GetOpenapi
    \/ SkipRoute
    \/ AnalyseDep
    \/ MergeRoute
    \/ FinishCompile
    \/ VisitRaise
    \/ VisitCall
    \/ \E k \in 1..RecursionLimit : RecursionError(k)
    \/ Return

Spec == Init /\ [][Next]_vars


(***************************************************************************)
(* Specification of _resolve_status_and_detail_from_exc_type over raise    *)
(* expressions of bounded size.                                            *)
(***************************************************************************)
WalkerAtRest ==
    /\ calls = [f \in Funcs |-> NoCall]
    /\ form2 = RaiseB404
    /\ visited = <<>>
    /\ stack = <<>>
    /\ nvisit = ZeroVisits
    /\ op = Idle(0, 0)
    /\ pass = NoPass
    /\ last = NoOp
    /\ prev = NoOp
    /\ app = DefaultRoutes
    /\ install = "venv"

\* the sequences over S of length at most n
SeqsUpTo(S, n) == UNION {[1..k -> S] : k \in 0..n}

ExtractClasses == {PlainA, NoNeedParanthesis, ClsAttr, FifthException}

\* positional arguments: 418, 7, "oops", and a variable x
ArgChoices == {Constant(PyInt(418)), Constant(PyInt(7)), Constant(Oops), Name("x")}

\* status_code=404, =1000, =0, =None, =status.HTTP_404_NOT_FOUND, =x, =f()
StatusKeywordChoices ==
    {Constant(PyInt(404)), Constant(PyInt(1000)), Constant(PyInt(0)), Constant(PyNone),
     Attribute("HTTP_404_NOT_FOUND"), Name("x"), OtherExpr}

\* detail="nope", =123, =f()
DetailKeywordChoices == {Constant(Nope), Constant(PyInt(123)), OtherExpr}

\* headers=None, item_id=x
OtherKeywordChoices == {keyword("headers", Constant(PyNone)), keyword("item_id", Name("x"))}

\* at most one keyword of each kind, in the order status_code, detail, other
KeywordChoices ==
    {st \o de \o ot :
        st \in {<<>>} \cup {<<keyword("status_code", v)>> : v \in StatusKeywordChoices},
        de \in {<<>>} \cup {<<keyword("detail", v)>> : v \in DetailKeywordChoices},
        ot \in {<<>>} \cup {<<k>> : k \in OtherKeywordChoices}}

RaiseChoices ==
    {BareRaise, NameRaise}
        \cup {CallRaise(args, keywords) :
                 args \in SeqsUpTo(ArgChoices, MaxArgs), keywords \in KeywordChoices}

InitExtract ==
    /\ PathAtRest
    /\ ScopeAtRest
    /\ AgainAtRest
    /\ WalkerAtRest
    /\ extract_in \in [exc_type : ExtractClasses, ast_raise : RaiseChoices]
    /\ extract_out = NotExtracted
    /\ merge_in = NoMerge
    /\ merge_out = NotFilled
    /\ PureAtRest

Extract ==
    /\ ~extract_out.done
    /\ extract_out' =
          [done |-> TRUE,
           value |-> resolve_status_and_detail_from_exc_type(extract_in.exc_type,
                                                             extract_in.ast_raise)]
    /\ UNCHANGED <<walker_vars, extract_in, merge_vars, fixed_vars>>

NextExtract == Extract

SpecExtract == InitExtract /\ [][NextExtract]_vars

(***************************************************************************)
(* Specification of _fill_openapi_with_excpetions over bounded lists of    *)
(* discovered exceptions and the documents a getter may return.            *)
(***************************************************************************)
Discovered(exc, node) == [exc |-> exc, node |-> node]

StatusDetail(status_code, detail) ==
    CallRaise(<<>>, <<keyword("status_code", Constant(PyInt(status_code))),
                      keyword("detail", Constant(detail))>>)

\* raise E(status_code=<status_code>)
StatusOnly(status_code) ==
    CallRaise(<<>>, <<keyword("status_code", Constant(PyInt(status_code)))>>)

ExceptionChoices ==
    {Discovered(PlainA, StatusDetail(404, Oops)),
     Discovered(PlainB, StatusDetail(404, Nope)),
     Discovered(PlainC, StatusDetail(500, Oops)),
     Discovered(PlainC, StatusDetail(404, Oops)),
     Discovered(FifthException, NameRaise),
     Discovered(PlainA, StatusDetail(404, PyInt(123))),
     Discovered(PlainB, NameRaise),
     Discovered(PlainA, StatusOnly(408)),
     Discovered(PlainA, StatusOnly(409))}

MergeRoutePath == Routes[1]

\* the responses of the route's operation in the getter's document
ResponsesChoices ==
    {(200 :> Single(<<"Response200">>)),
     (200 :> Single(<<"Response200">>)) @@ (404 :> Single(<<"Existing">>)),
     (200 :> Single(<<"Response200">>)) @@ (404 :> NoContent),
     (200 :> Single(<<"Response200">>))
        @@ (404 :> AnyOf(<<<<"Existing">>, <<"Other">>>>))}

DocWith(responses) ==
    [paths |-> (<<MergeRoutePath.path, MergeRoutePath.methods[1]>> :> responses),
     components |-> <<>>]

\* components.schemas of the getter's document: empty, or holding under the
\* name of the schema of detail "oops" a schema some earlier route or the
\* user registered
ComponentsChoices ==
    {<<>>, (try_to_camel_case(Oops.s) \o <<"Schema">>) :> PyStr(<<"registered">>)}

InitMerge ==
    /\ PathAtRest
    /\ ScopeAtRest
    /\ AgainAtRest
    /\ WalkerAtRest
    /\ extract_in = NoExtract
    /\ extract_out = NotExtracted
    /\ merge_in \in [api_schema : {[DocWith(r) EXCEPT !.components = c] :
                                      r \in ResponsesChoices, c \in ComponentsChoices},
                     exceptions : SeqsUpTo(ExceptionChoices, MaxExceptions)]
    /\ merge_out = NotFilled
    /\ PureAtRest

Fill ==
    /\ ~merge_out.done
    /\ LET filled == fill_openapi_with_excpetions(merge_in.api_schema, MergeRoutePath,
                                                  merge_in.exceptions)
       IN  merge_out' = [done |-> TRUE, doc |-> filled.doc, raised |-> filled.raised]
    /\ UNCHANGED <<walker_vars, extract_vars, merge_in, fixed_vars>>

\* The merge runs again for the same route and exceptions on the document
\* it has filled: the base-document getter hands out the same document
\* object on a second compile pass, and a second route of the same path and
\* method writes to the same operation.
FillAgain ==
    /\ merge_out.done
    /\ ~merge_out.raised
    /\ ~merge_again.done
    /\ LET filled == fill_openapi_with_excpetions(merge_out.doc, MergeRoutePath,
                                                  merge_in.exceptions)
       IN  merge_again' = [done |-> TRUE, doc |-> filled.doc, raised |-> filled.raised]
    /\ UNCHANGED <<walker_vars, extract_vars, merge_vars, enrich_vars, filter_vars,
                   app, install, path_vars, scope_vars>>

NextMerge == Fill \/ FillAgain

SpecMerge == InitMerge /\ [][NextMerge]_vars


(***************************************************************************)
(* Properties of the walker and the compile pass (Spec).                   *)
(***************************************************************************)
\* C1: within one operation (a direct call of find_explicit_exceptions or a
\* compile pass) the body of each function is analysed at most once, also
\* when the call graph has a cycle.
C1_VisitedAtMostOnce == \A f \in Funcs : nvisit[f] <= 1

\* C2: the list a direct call of find_explicit_exceptions returns holds no
\* raise site of a function whose module is outside the scan scope given to
\* that call.
C2_NoSiteOutsideScope ==
    (last.kind = "direct" /\ last.outcome = "returned")
        => \A i \in 1..Len(last.result) :
              should_be_visited(ModuleOf(last.result[i]), last.arg)

\* C3: two calls of compile_openapi_from_fastapi in succession with the same
\* scan-scope argument, both returning, return equal documents.
C3_CompileTwiceEqual ==
    (/\ last.kind = "compile" /\ last.outcome = "returned"
     /\ prev.kind = "compile" /\ prev.outcome = "returned"
     /\ last.arg = prev.arg)
        => last.doc = prev.doc

\* C9: every call of compile_openapi_from_fastapi returns a document; a raise
\* site whose name or arguments cannot be interpreted never makes it raise.
C9_CompileAlwaysReturns == last.kind = "compile" => last.outcome = "returned"

\* C10: the visited table is empty when a compile pass begins, and empty
\* after a compile pass has ended, whether it returned or raised.
C10_VisitedConfinedToPass ==
    /\ pass.phase = "begin" => visited = <<>>
    /\ (op.kind = "idle" /\ last.kind = "compile") => visited = <<>>

(***************************************************************************)
(* Properties of the merge (SpecMerge).                                    *)
(***************************************************************************)
\* the schema of the i-th discovered exception of the merge's input
SchemaAt(i) == schema_for(merge_in.exceptions[i])

\* the responses of the route's operation after the merge
MergedResponses ==
    merge_out.doc.paths[<<MergeRoutePath.path, MergeRoutePath.methods[1]>>]

\* i is the first discovery of its (status code, schema name) pair
FirstOfPair(i) ==
    /\ SchemaAt(i).r = "schema"
    /\ \A k \in 1..(i - 1) :
          ~(/\ SchemaAt(k).r = "schema"
            /\ SchemaAt(k).status_code = SchemaAt(i).status_code
            /\ SchemaAt(k).schema_name = SchemaAt(i).schema_name)

\* C4: when two exceptions with different schemas and the same status code
\* are discovered for a route, the merged response under that status is an
\* anyOf that holds the reference of each, the earlier discovered first, and
\* holds no reference twice.
C4_UnionInDiscoveryOrder ==
    (merge_out.done /\ ~merge_out.raised)
        => \A i, j \in 1..Len(merge_in.exceptions) :
              (/\ i < j
               /\ FirstOfPair(i)
               /\ FirstOfPair(j)
               /\ SchemaAt(i).status_code = SchemaAt(j).status_code
               /\ SchemaAt(i).schema_name # SchemaAt(j).schema_name)
                  => /\ SchemaAt(i).status_code \in DOMAIN MergedResponses
                     /\ LET entry == MergedResponses[SchemaAt(i).status_code]
                        IN  /\ entry.anyOf
                            /\ \E p, q \in 1..Len(entry.schemas) :
                                  /\ p < q
                                  /\ entry.schemas[p] = SchemaAt(i).schema_name
                                  /\ entry.schemas[q] = SchemaAt(j).schema_name
                            /\ \A p, q \in 1..Len(entry.schemas) :
                                  entry.schemas[p] = entry.schemas[q] => p = q

\* C5: every discovered exception that has a schema has exactly one reference
\* to that schema in the merged response under its own status code: the same
\* name under the same status collapses, the same name under another status
\* gets its own entry.
C5_KeyedByStatusAndName ==
    (merge_out.done /\ ~merge_out.raised)
        => \A i \in 1..Len(merge_in.exceptions) :
              SchemaAt(i).r = "schema"
                  => /\ SchemaAt(i).status_code \in DOMAIN MergedResponses
                     /\ LET entry == MergedResponses[SchemaAt(i).status_code]
                        IN  Cardinality({p \in 1..Len(entry.schemas) :
                                entry.schemas[p] = SchemaAt(i).schema_name}) = 1

(***************************************************************************)
(* Properties of the extraction (SpecExtract).                             *)
(***************************************************************************)
\* the value of a status_code keyword the extraction recognises: a literal
\* integer or a constant of fastapi.status
Recognised(value) ==
    IF value.node = "Constant" THEN value.value.t = "int"
    ELSE value.node \in {"Attribute", "Name"} /\ fastapi_status(value.id).t = "int"

RecognisedValue(value) ==
    IF value.node = "Constant" THEN value.value.n ELSE fastapi_status(value.id).n

HasBothClassAttributes(cls) == hasattr(cls, "status_code") /\ hasattr(cls, "detail")

\* C6: when the raise expression passes status_code by keyword with a
\* recognised value and a literal integer positionally, the extracted status
\* code is the keyword's value (stated for the classes whose pair is not
\* settled by their class attributes).
C6_KeywordOverridesPositional ==
    (/\ extract_out.done
     /\ extract_in.ast_raise.node = "Call"
     /\ ~HasBothClassAttributes(extract_in.exc_type))
        => \A k \in 1..Len(extract_in.ast_raise.keywords) :
              LET kw == extract_in.ast_raise.keywords[k]
              IN  (/\ kw.arg = "status_code"
                   /\ Recognised(kw.value)
                   /\ \E a \in 1..Len(extract_in.ast_raise.args) :
                         /\ extract_in.ast_raise.args[a].node = "Constant"
                         /\ extract_in.ast_raise.args[a].value.t = "int")
                      => /\ extract_out.value.r = "pair"
                         /\ extract_out.value.status_code = RecognisedValue(kw.value)

\* C7: for a class that declares both status_code and detail, the extracted
\* pair is the class attributes whatever the raise expression passes.
C7_ClassAttributesFirst ==
    (extract_out.done /\ HasBothClassAttributes(extract_in.exc_type))
        => extract_out.value
              = Pair(extract_in.exc_type.cstatus.n, extract_in.exc_type.cdetail)

\* a raise of such a class whose arguments, if inspected, would make int()
\* raise and would name another status: ClsAttr(418, status_code=None)
C7_Witness ==
    /\ extract_out.done
    /\ extract_in.exc_type = ClsAttr
    /\ extract_in.ast_raise
          = CallRaise(<<Constant(PyInt(418))>>,
                      <<keyword("status_code", Constant(PyNone))>>)
    /\ extract_out.value = Pair(500, PyStr(<<"boom">>))

\* C8: every pair the extraction produces has a status code in 100..599.
C8_StatusInRange ==
    (extract_out.done /\ extract_out.value.r = "pair")
        => extract_out.value.status_code \in 100..599


(***************************************************************************)
(* enrich_openapi: the scan scope inferred from the caller frames.  A      *)
(* frame is the __name__ of its globals and whether one of its globals is  *)
(* the application instance; frames[1] is the innermost frame.             *)
(***************************************************************************)
\* Frames on the interpreter stack when enrich_openapi is called.
MaxFrames == 3

SubModule == <<"l", "i", "b", ".", "x">>
FrameModuleChoices == {MainModule, AppModule, SubModule}
FrameChoices == [name : FrameModuleChoices, has_app : BOOLEAN]

RECURSIVE find_module_name_where_app_defined_in(_)
find_module_name_where_app_defined_in(frames) ==
    IF frames = <<>> THEN [found |-> FALSE, name |-> <<>>]
    ELSE IF Head(frames).has_app THEN [found |-> TRUE, name |-> Head(frames).name]
    ELSE find_module_name_where_app_defined_in(Tail(frames))

\* the inferred name is kept whole
scope_without_split(inferred) ==
    IF ~inferred.found \/ inferred.name = MainModule
    THEN [raised |-> TRUE, target_module |-> <<>>]
    ELSE [raised |-> FALSE, target_module |-> inferred.name]

\* enrich_openapi after the frame search: raise, or keep the top-level module
scope_from_inferred(inferred) ==
    IF ~inferred.found \/ inferred.name = MainModule
    THEN [raised |-> TRUE, target_module |-> <<>>]
    ELSE [raised |-> FALSE, target_module |-> split(inferred.name, ".")[1]]

enrich_openapi(explicit, target_module, frames) ==
    IF explicit THEN [raised |-> FALSE, target_module |-> target_module]
    ELSE scope_from_inferred(find_module_name_where_app_defined_in(frames))

ExtractAtRest ==
    /\ extract_in = NoExtract
    /\ extract_out = NotExtracted

MergeAtRest ==
    /\ merge_in = NoMerge
    /\ merge_out = NotFilled

EnrichChoices ==
    {[explicit |-> e, target_module |-> t, frames |-> f] :
        e \in {FALSE}, t \in {<<>>},
        f \in SeqsUpTo(FrameChoices, MaxFrames) \ {<<>>}}
    \cup
    {[explicit |-> e, target_module |-> t, frames |-> f] :
        e \in {TRUE}, t \in FrameModuleChoices,
        f \in SeqsUpTo(FrameChoices, MaxFrames) \ {<<>>}}

InitEnrich ==
    /\ PathAtRest
    /\ ScopeAtRest
    /\ AgainAtRest
    /\ WalkerAtRest
    /\ ExtractAtRest
    /\ MergeAtRest
    /\ enrich_in \in EnrichChoices
    /\ enrich_out = NotEnriched
    /\ filter_in = <<>>
    /\ filter_out = NotFiltered

Enrich ==
    /\ ~enrich_out.done
    /\ LET returned == enrich_openapi(enrich_in.explicit, enrich_in.target_module,
                                      enrich_in.frames)
       IN  enrich_out' = [done |-> TRUE, raised |-> returned.raised,
                          target_module |-> returned.target_module]
    /\ UNCHANGED <<walker_vars, extract_vars, merge_vars, enrich_in, filter_vars, env_vars>>

NextEnrich == Enrich

SpecEnrich == InitEnrich /\ [][NextEnrich]_vars

\* the frames whose globals hold the application
Holders == {i \in 1..Len(enrich_in.frames) : enrich_in.frames[i].has_app}
\* the innermost of them
FirstHolder == CHOOSE i \in Holders : \A j \in Holders : i <= j
\* top is the part of name before its first dot
IsTopLevelOf(top, name) ==
    /\ top # <<>>
    /\ "." \notin Range(top)
    /\ StartsWith(name, top)
    /\ (Len(name) > Len(top) => name[Len(top) + 1] = ".")

\* C11 as stated: without a scan scope, enrich_openapi raises exactly when no
\* caller frame holds the application in its globals; when one does, nothing
\* is raised and the scope is the top-level package of that frame's module.
C11_RaisesOnlyWhenNotFound ==
    (enrich_out.done /\ ~enrich_in.explicit)
        => /\ enrich_out.raised <=> Holders = {}
           /\ Holders # {}
                => IsTopLevelOf(enrich_out.target_module,
                                enrich_in.frames[FirstHolder].name)

\* C11, amended: without a scan scope, enrich_openapi raises exactly when no
\* caller frame holds the application in its globals or the innermost frame
\* that holds it is __main__; otherwise nothing is raised and the scope is the
\* top-level package of the module of that frame.
C11_RaisesWhenNotFoundOrMain ==
    (enrich_out.done /\ ~enrich_in.explicit)
        => IF Holders = {} \/ enrich_in.frames[FirstHolder].name = MainModule
           THEN enrich_out.raised
           ELSE /\ ~enrich_out.raised
                /\ IsTopLevelOf(enrich_out.target_module,
                                enrich_in.frames[FirstHolder].name)

\* the application is a global of lib.x, an outer frame: the scope is lib
C11_Witness ==
    /\ enrich_out.done
    /\ ~enrich_in.explicit
    /\ Holders # {}
    /\ FirstHolder > 1
    /\ enrich_in.frames[FirstHolder].name = SubModule
    /\ ~enrich_out.raised
    /\ enrich_out.target_module = LibModule


(***************************************************************************)
(* Specification of the filter of _extract_starlette_exceptions followed   *)
(* by the merge, over the pairs the walker can collect for one route.      *)
(***************************************************************************)
\* Raise sites collected for the route.
MaxFound == 3

Found(type, node) == [type |-> type, node |-> node]

\* raise A(status_code=404, detail="oops"); raise FifthException;
\* raise unknown(status_code=418, detail="nope"), the name unresolved;
\* raise ValueError(status_code=418, detail="nope"); raise DomainError;
\* raise NotImplemented
FoundChoices ==
    {Found(ExcObject(PlainA), StatusDetail(404, Oops)),
     Found(ExcObject(FifthException), NameRaise),
     Found(NoObject, StatusDetail(418, Nope)),
     Found(ExcObject(ValueErrorClass), StatusDetail(418, Nope)),
     Found(ExcObject(DomainError), NameRaise),
     Found(NonClassObject, NameRaise)}

InitFilter ==
    /\ PathAtRest
    /\ ScopeAtRest
    /\ AgainAtRest
    /\ WalkerAtRest
    /\ ExtractAtRest
    /\ MergeAtRest
    /\ enrich_in = NoEnrich
    /\ enrich_out = NotEnriched
    /\ filter_in \in SeqsUpTo(FoundChoices, MaxFound)
    /\ filter_out = NotFiltered

\* lines 314-325 of _extract_starlette_exceptions, then the merge of
\* compile_openapi_from_fastapi (lines 89-93) into the getter's document
filter_and_fill(filtered) ==
    IF filtered.raised THEN [doc |-> EmptyDoc, raised |-> TRUE]
    ELSE fill_openapi_with_excpetions(get_openapi, MergeRoutePath,
                                      filtered.casted_exceptions)

Filter ==
    /\ ~filter_out.done
    /\ LET filled == filter_and_fill(starlette_http_exc_types(filter_in))
       IN  filter_out' = [done |-> TRUE, raised |-> filled.raised, doc |-> filled.doc]
    /\ UNCHANGED <<walker_vars, extract_vars, merge_vars, enrich_vars, filter_in, env_vars>>

NextFilter == Filter

SpecFilter == InitFilter /\ [][NextFilter]_vars

\* the responses of the route's operation after the filter and the merge
FilteredResponses ==
    filter_out.doc.paths[<<MergeRoutePath.path, MergeRoutePath.methods[1]>>]

\* the collected pairs whose class is a subclass of the HTTP exception base
HttpFound ==
    {i \in 1..Len(filter_in) :
        filter_in[i].type.kind = "excclass" /\ filter_in[i].type.cls.http}

\* the schema the i-th collected pair would have
FoundSchema(i) == schema_for(Discovered(filter_in[i].type.cls, filter_in[i].node))

\* C12: a raise site adds a response to the route only if its class is a
\* subclass of the HTTP exception base: every status other than the getter's
\* own and every component schema of the route's document comes from such a
\* site; sites with a null class or another exception class add nothing.
C12_OnlyHttpSubclassesAdd ==
    (filter_out.done /\ ~filter_out.raised)
        => /\ \A status \in DOMAIN FilteredResponses :
                 status = 200
                 \/ \E i \in HttpFound : /\ FoundSchema(i).r = "schema"
                                         /\ FoundSchema(i).status_code = status
           /\ \A name \in DOMAIN filter_out.doc.components :
                 \E i \in HttpFound : /\ FoundSchema(i).r = "schema"
                                      /\ FoundSchema(i).schema_name = name

\* a null-class site, a ValueError site and a DomainError site, all naming
\* 418, collected with an HTTP site: only 404 joins the document
C12_Witness ==
    /\ filter_out.done
    /\ ~filter_out.raised
    /\ \E i \in 1..Len(filter_in) : filter_in[i].type = NoObject
    /\ \E i \in 1..Len(filter_in) : filter_in[i].type = ExcObject(DomainError)
    /\ \E i \in 1..Len(filter_in) : filter_in[i].type = ExcObject(PlainA)
    /\ DOMAIN FilteredResponses = {200, 404}


(***************************************************************************)
(* Specification of direct calls of find_explicit_exceptions on the        *)
(* callables of the second program.                                        *)
(***************************************************************************)
\* the callables passed to find_explicit_exceptions: module-level functions,
\* the class Svc, the instance inst, and the method Svc.m
DirectChoices ==
    {"call_class", "call_inst", "call_param", "call_ann", "call_ann_str", "chain",
     "k_use", "k_use_str", "k_use_undeclared", "k_other", "very_nested", "nested",
     "reassign", "rec", "Svc", "inst", "Svc.m", "guarded", "calls_guarded",
     "around_hidden", "call_L", "k_helper"}

InitCalls ==
    /\ PathAtRest
    /\ ScopeAtRest
    /\ AgainAtRest
    /\ WalkerAtRest
    /\ ExtractAtRest
    /\ MergeAtRest
    /\ PureAtRest

NextCalls ==
    \/ \E func \in DirectChoices, target_modules \in TargetModuleChoices :
            StartDirect(func, target_modules)
    \/ VisitRaise
    \/ VisitCall
    \/ GetsourceError
    \/ \E k \in 1..RecursionLimit : RecursionError(k)
    \/ Return

SpecCalls == InitCalls /\ [][NextCalls]_vars

\* the analysis of func, entered by find_explicit_exceptions, is about to
\* return the list of its outermost frame
Returning(func) ==
    /\ Len(stack) = 1
    /\ stack[1].func = func
    /\ stack[1].pc > Len(Body(func))

\* the raise sites of that list
Returned == Range(stack[1].exceptions)

\* C14: when a call site or a dependency resolves to an in-scope class or to
\* a callable instance of such a class, the raise sites of the class's
\* __init__ and __call__ are contributed: the list of a function that calls
\* Svc or inst, and the list of Svc or inst passed as a dependency, hold both.
C14_ClassAndInstanceContribute ==
    \A func \in {"call_class", "call_inst", "Svc", "inst"} :
        Returning(func) => {"Svc.__init__", "Svc.__call__"} \subseteq Returned

\* C15: a call x.m() where the parameter x is annotated with the class Svc or
\* with Annotated[Svc, ...] contributes the raise site of Svc.m.
C15_AnnotatedParameterMethod ==
    \A func \in {"call_param", "call_ann", "call_ann_str"} :
        Returning(func) => "Svc.m" \in Returned

MethodList(method) == IF method \in DOMAIN visited THEN visited[method] ELSE <<>>

\* C17: inside a method of K a call self.a.m() is followed exactly when a is
\* declared as a class-level annotation of K, and then contributes the raise
\* sites of the annotated class's __init__ and of its method m; a call of
\* another method of K through self contributes nothing.
C17_SelfAttributeFollowedWhenAnnotated ==
    /\ Returning("k_use") => MethodList("K.use") = <<"Svc.__init__", "Svc.m">>
    /\ Returning("k_use_str") => MethodList("K.use_str") = <<"Svc.__init__", "Svc.m">>
    /\ Returning("k_use_undeclared") => MethodList("K.use_undeclared") = <<>>
    /\ Returning("k_other") => MethodList("K.other") = <<>>

\* the schema the merge derives for a raise site
SiteSchema(site) == schema_for(Discovered(TypeAt(site).cls, RaiseOf(site).node))

\* C18: the raise site of a function called inside a try block is contributed
\* although the try statement has an except clause that names its class, and
\* so is the raise statement of the except body; a raise of a local name is
\* attributed to the class most recently assigned to the name; each of these
\* sites has a schema for the route's responses.
C18_TryAndLocalNames ==
    /\ Returning("nested")
          => /\ stack[1].exceptions = <<"very_nested", "nested">>
             /\ TypeAt("very_nested") = ExcObject(ClsAttr)
             /\ SiteSchema("very_nested").status_code = 500
             /\ TypeAt("nested") = ExcObject(FifthException)
             /\ SiteSchema("nested").status_code = 405
    /\ Returning("reassign")
          => /\ stack[1].exceptions = <<"reassign">>
             /\ TypeAt("reassign") = ExcObject(FifthException)
             /\ SiteSchema("reassign").status_code = 405

C18_Witness ==
    /\ Returning("nested")
    /\ "very_nested" \in DOMAIN visited
    /\ "reassign" \in DOMAIN visited
    /\ visited["reassign"] = <<"reassign">>

(***************************************************************************)
(* Specification of the compile pass over an application whose routes have *)
(* dependency trees, in an interpreter installed system-wide or in a       *)
(* virtual environment.                                                    *)
(*                                                                         *)
(*   @app.get("/t")                                                        *)
(*   def refresh(a=Depends(dep_outer), b=Depends(http_bearer)): helper()   *)
(*   def dep_outer(c=Depends(dep_inner)): raise 411                        *)
(*   app.add_api_route("/v", view.get)                                     *)
(*   @app.get("/r")                                                        *)
(*   def rec(): rec(); raise 408                                           *)
(*   @app.get("/x", include_in_schema=False)                               *)
(*   def helper(): raise 409                                               *)
(***************************************************************************)
DepsRoutes ==
    << APIRoute("/t", TRUE,
                Dependant("refresh",
                          <<Dependant("dep_outer", <<Dependant("dep_inner", <<>>)>>),
                            Dependant("http_bearer", <<>>)>>)),
       APIRoute("/v", TRUE, Dependant("View.get", <<>>)),
       APIRoute("/r", TRUE, Dependant("rec", <<>>)),
       APIRoute("/x", FALSE, Dependant("helper", <<>>)) >>

\* where the interpreter keeps third-party packages
InstallChoices == {"venv", "system"}

InitDeps ==
    /\ PathAtRest
    /\ ScopeAtRest
    /\ AgainAtRest
    /\ calls = [f \in Funcs |-> NoCall]
    /\ form2 = RaiseB404
    /\ visited = <<>>
    /\ stack = <<>>
    /\ nvisit = ZeroVisits
    /\ op = Idle(0, 0)
    /\ pass = NoPass
    /\ last = NoOp
    /\ prev = NoOp
    /\ app = DepsRoutes
    /\ install \in InstallChoices
    /\ ExtractAtRest
    /\ MergeAtRest
    /\ PureAtRest

NextDeps ==
    \/ \E target_module \in TargetModuleChoices : StartCompile(target_module)
    \/ GetOpenapi
    \/ SkipRoute
    \/ AnalyseDep
    \/ MergeRoute
    \/ FinishCompile
    \/ VisitRaise
    \/ VisitCall
    \/ \E k \in 1..RecursionLimit : RecursionError(k)
    \/ Return

SpecDeps == InitDeps /\ [][NextDeps]_vars

\* compile_openapi_from_fastapi has returned the document of the application
Compiled == last.kind = "compile" /\ last.outcome = "returned"

\* the status codes of the responses of the route's operation in that document
ResponsesOf(path) == DOMAIN last.doc.paths[<<path, "get">>]

\* the status codes of the HTTP exceptions raised in the handler of the route,
\* in the callables of its dependency tree and in the functions they call
RaisedUnder(path) ==
    CASE path = "/t" -> {409, 411, 412, 403}
      [] path = "/v" -> {410}
      [] path = "/r" -> {408}

\* C13: for every route, the responses include the status code of every HTTP
\* exception raised in the handler, in any callable of its dependency tree at
\* any depth, and in any in-scope plain function those callables call.
C13_ResponsesCoverDependencyTree ==
    Compiled =>
        \A r \in 1..Len(Routes) :
            Routes[r].include_in_schema
                => RaisedUnder(Routes[r].path) \subseteq ResponsesOf(Routes[r].path)

\* C19: fastapi is always added to the scan scope, so the HTTPBearer instance
\* a route depends on contributes the 403 of its __call__ whatever scan scope
\* the caller configured.
C19_FastapiDependencyContributes ==
    Compiled => 403 \in ResponsesOf("/t")

(***************************************************************************)
(* Properties of the merge for raise expressions that pass status_code     *)
(* alone (SpecMerge).                                                      *)
(***************************************************************************)
\* the names of the literal keywords other than status_code and detail
OtherLiteralKeywords(node) ==
    {node.keywords[k].arg : k \in {j \in 1..Len(node.keywords) :
        /\ node.keywords[j].arg \notin {"status_code", "detail"}
        /\ node.keywords[j].value.node = "Constant"}}

\* the raise expression passes a recognised status_code keyword and no
\* literal detail keyword, the class does not settle the pair itself, and
\* the constructor fails on the collected literal arguments
StatusKeywordAlone(item, k) ==
    /\ ~hasattr(item.exc, "get_json_schema")
    /\ ~HasBothClassAttributes(item.exc)
    /\ item.node.node = "Call"
    /\ k \in 1..Len(item.node.keywords)
    /\ item.node.keywords[k].arg = "status_code"
    /\ Recognised(item.node.keywords[k].value)
    /\ \A d \in 1..Len(item.node.keywords) :
          item.node.keywords[d].arg = "detail"
              => item.node.keywords[d].value.node # "Constant"
    /\ ~construct(item.exc, constant_values(item.node.args),
                  OtherLiteralKeywords(item.node)).ok

\* C20: a raise expression that passes a recognised status_code keyword and
\* no literal detail keyword, and whose exception cannot be constructed from
\* the collected literal arguments, yields the keyword's status code with a
\* null detail, and the merged responses hold an entry under that status.
C20_StatusKeywordSurvivesFailedConstruction ==
    (merge_out.done /\ ~merge_out.raised)
        => \A i \in 1..Len(merge_in.exceptions), k \in 1..MaxArgs :
              StatusKeywordAlone(merge_in.exceptions[i], k)
                  => /\ resolve_status_and_detail_from_exc_type(
                            merge_in.exceptions[i].exc, merge_in.exceptions[i].node)
                        = Pair(RecognisedValue(merge_in.exceptions[i].node.keywords[k].value),
                               PyNone)
                     /\ RecognisedValue(merge_in.exceptions[i].node.keywords[k].value)
                            \in DOMAIN MergedResponses

(***************************************************************************)
(* Properties of the component registry (SpecMerge).                       *)
(***************************************************************************)
\* C21: components.schemas[name] is written only when name is absent from
\* the registry: every entry the document held before the merge is there
\* after it, unchanged, whether the merge returns or raises.
C21_ComponentsWrittenOnce ==
    merge_out.done
        => \A name \in DOMAIN merge_in.api_schema.components :
              /\ name \in DOMAIN merge_out.doc.components
              /\ merge_out.doc.components[name] = merge_in.api_schema.components[name]

\* a registered name meets a raise site whose schema has that name and
\* another JSON, and the site's reference enters the responses
C21_Witness ==
    /\ merge_out.done
    /\ ~merge_out.raised
    /\ \E i \in 1..Len(merge_in.exceptions) :
          /\ SchemaAt(i).r = "schema"
          /\ SchemaAt(i).schema_name \in DOMAIN merge_in.api_schema.components
          /\ SchemaAt(i).response_schema_json
                # merge_in.api_schema.components[SchemaAt(i).schema_name]
          /\ SchemaAt(i).status_code \in DOMAIN MergedResponses
          /\ \E p \in 1..Len(MergedResponses[SchemaAt(i).status_code].schemas) :
                MergedResponses[SchemaAt(i).status_code].schemas[p]
                    = SchemaAt(i).schema_name

(***************************************************************************)
(* Properties of the merge into existing responses (SpecMerge).            *)
(***************************************************************************)
\* the responses of the route's operation before the merge
BaseResponses ==
    merge_in.api_schema.paths[<<MergeRoutePath.path, MergeRoutePath.methods[1]>>]

\* i has a schema and no earlier discovery has a schema of that name
FirstOfName(i) ==
    /\ SchemaAt(i).r = "schema"
    /\ \A j \in 1..(i - 1) :
          SchemaAt(j).r = "schema" => SchemaAt(j).schema_name # SchemaAt(i).schema_name

\* C22: for every status under which the document already holds a response
\* entry, with or without an application/json schema, merging a raise site
\* of that status leaves a union that starts with the previous schema or
\* schemas and holds the new reference after them.
C22_ExistingEntryLiftedToUnion ==
    (merge_out.done /\ \A i \in 1..Len(merge_in.exceptions) : SchemaAt(i).r # "raise")
        => /\ ~merge_out.raised
           /\ \A i \in 1..Len(merge_in.exceptions) :
                 (FirstOfName(i) /\ SchemaAt(i).status_code \in DOMAIN BaseResponses)
                     => LET before == BaseResponses[SchemaAt(i).status_code].schemas
                            entry == MergedResponses[SchemaAt(i).status_code]
                        IN  /\ entry.anyOf
                            /\ Len(entry.schemas) > Len(before)
                            /\ SubSeq(entry.schemas, 1, Len(before)) = before
                            /\ \E p \in (Len(before) + 1)..Len(entry.schemas) :
                                  entry.schemas[p] = SchemaAt(i).schema_name

(***************************************************************************)
(* Specification of _resolve_full_attribute_path over expressions of       *)
(* bounded depth.  A dotted path is the sequence of its segments; None,    *)
(* returned when no segment was collected, is the empty sequence.  A node  *)
(* that is no attribute, call or name (a subscript, a literal, a binary    *)
(* operation) is OtherExpr: the function does not look inside it.          *)
(***************************************************************************)
\* Attribute and call nodes wrapped around the innermost node.
MaxDepth == 3

RECURSIVE NodeChoices(_)
NodeChoices(depth) ==
    IF depth = 0 THEN {Name("a"), OtherExpr}
    ELSE NodeChoices(depth - 1)
            \cup {Call(n) : n \in NodeChoices(depth - 1)}
            \cup {AttributeOf(n, attr) : n \in NodeChoices(depth - 1), attr \in {"b", "c"}}

InitPath ==
    /\ WalkerAtRest
    /\ ExtractAtRest
    /\ MergeAtRest
    /\ PureAtRest
    /\ ScopeAtRest
    /\ AgainAtRest
    /\ path_in \in NodeChoices(MaxDepth)
    /\ path_out = NotResolved

ResolvePath ==
    /\ ~path_out.done
    /\ path_out' = [done |-> TRUE, value |-> resolve_full_attribute_path(path_in)]
    /\ UNCHANGED <<walker_vars, extract_vars, merge_vars, enrich_vars, filter_vars,
                   app, install, path_in, scope_vars, merge_again>>

NextPath == ResolvePath

SpecPath == InitPath /\ [][NextPath]_vars

\* the node reached by descending through attribute and call nodes
RECURSIVE Leftmost(_)
Leftmost(node) ==
    IF node.node \in {"Attribute", "Call"} THEN Leftmost(node.value) ELSE node

\* the attribute names met on the way down, left to right
RECURSIVE AttributeNames(_)
AttributeNames(node) ==
    CASE node.node = "Attribute" -> Append(AttributeNames(node.value), node.id)
      [] node.node = "Call" -> AttributeNames(node.value)
      [] OTHER -> <<>>

\* C23: _resolve_full_attribute_path returns null for every node whose
\* leftmost producer is not a bare name, and otherwise the dotted path of
\* all its segments from left to right.
C23_NullUnlessRootedAtName ==
    path_out.done
        => path_out.value = IF Leftmost(path_in).node = "Name"
                            THEN <<Leftmost(path_in).id>> \o AttributeNames(path_in)
                            ELSE <<>>

(***************************************************************************)
(* Properties of the types recorded at raise sites (Spec).                 *)
(***************************************************************************)
\* C24: type resolution returns null or a subclass of the exception root,
\* so the first component of every pair a finder has collected is null or
\* an exception class.
C24_TypeIsNullOrExceptionClass ==
    \A i \in 1..Len(stack) :
        \A j \in 1..Len(stack[i].exceptions) :
            TypeAt(stack[i].exceptions[j]).kind \in {"None", "excclass"}

(***************************************************************************)
(* Properties of decorated functions (SpecCalls).                          *)
(***************************************************************************)
\* C25: decorator expressions are never traversed: the raise site of
\* make_guard, reachable only through the decorator @make_guard(...) of
\* guarded, is neither in the list of guarded nor in the list of a function
\* that calls guarded.
C25_DecoratorsNotTraversed ==
    \A func \in {"guarded", "calls_guarded"} :
        Returning(func) => "make_guard" \notin Returned

(***************************************************************************)
(* Properties of callees without source (SpecCalls).                       *)
(***************************************************************************)
\* C26: when the source of a called function cannot be obtained, only that
\* callee is skipped: around_hidden calls hidden, whose module has no source
\* file, and then raises; its list, which is the list memoized for it, has
\* no raise site of hidden and has its own raise site.
C26_OnlyCalleeSkipped ==
    Returning("around_hidden") =>
        /\ "hidden" \notin Returned
        /\ "around_hidden" \in Returned

(***************************************************************************)
(* Properties of partly computed positional arguments (SpecExtract).       *)
(***************************************************************************)
\* some positional arguments of the raise expression are literal and some
\* are computed
MixedPositionals(node) ==
    /\ node.node = "Call"
    /\ constant_values(node.args) # <<>>
    /\ Len(constant_values(node.args)) # Len(node.args)

\* the values of the recognised status_code keywords of the raise expression
RecognisedStatus(node) ==
    {RecognisedValue(node.keywords[k].value) :
        k \in {j \in 1..Len(node.keywords) :
                  /\ node.keywords[j].arg = "status_code"
                  /\ Recognised(node.keywords[j].value)}}

\* the raise expression passes detail by keyword as a literal string
LiteralDetail(node) ==
    \E k \in 1..Len(node.keywords) :
        /\ node.keywords[k].arg = "detail"
        /\ node.keywords[k].value.node = "Constant"
        /\ node.keywords[k].value.value.t = "str"

\* the literal integers among the positional arguments
IntegerPositionals(node) ==
    LET IsInt(v) == v.t = "int"
    IN  SelectSeq(constant_values(node.args), IsInt)

\* C27: when the positional arguments are partly literal and partly
\* computed, the extraction yields the recognised status_code keyword with a
\* null detail, else the first literal integer positional with a null
\* detail, else nothing (stated for the sites that the class attributes or
\* the two keywords together have not settled before).
C27_MixedPositionals ==
    (/\ extract_out.done
     /\ MixedPositionals(extract_in.ast_raise)
     /\ ~HasBothClassAttributes(extract_in.exc_type)
     /\ ~(RecognisedStatus(extract_in.ast_raise) # {} /\ LiteralDetail(extract_in.ast_raise)))
        => extract_out.value =
              IF RecognisedStatus(extract_in.ast_raise) # {}
              THEN Pair(CHOOSE n \in RecognisedStatus(extract_in.ast_raise) : TRUE, PyNone)
              ELSE IF IntegerPositionals(extract_in.ast_raise) # <<>>
              THEN Pair(IntegerPositionals(extract_in.ast_raise)[1].n, PyNone)
              ELSE NoResult

(***************************************************************************)
(* Specification of the scope check over module names and lists of         *)
(* scan-scope prefixes.                                                    *)
(***************************************************************************)
\* the longest list of prefixes
MaxTargets == 2

\* the names of the modules checked: __main__, app, app.c, lib, lib.x,
\* fastapi.security and json
ScopeModuleChoices ==
    {MainModule, AppModule, CompiledModule, LibModule, SubModule, FastapiSecurity,
     <<"j", "s", "o", "n">>}

\* the prefixes configured: app, app., app.c., lib and fastapi
PrefixChoices ==
    {AppModule, Append(AppModule, "."), Append(CompiledModule, "."), LibModule,
     FastapiModule}

InitScope ==
    /\ PathAtRest
    /\ AgainAtRest
    /\ calls = [f \in Funcs |-> NoCall]
    /\ form2 = RaiseB404
    /\ visited = <<>>
    /\ stack = <<>>
    /\ nvisit = ZeroVisits
    /\ op = Idle(0, 0)
    /\ pass = NoPass
    /\ last = NoOp
    /\ prev = NoOp
    /\ app = DefaultRoutes
    /\ install \in InstallChoices
    /\ ExtractAtRest
    /\ MergeAtRest
    /\ PureAtRest
    /\ scope_in \in [module : ScopeModuleChoices,
                     target_modules : SeqsUpTo(PrefixChoices, MaxTargets)]
    /\ scope_out = NotScoped

\* is_in_module, and _should_be_visited with is_in_module as its predicate
CheckScope ==
    /\ ~scope_out.done
    /\ scope_out' =
          [done |-> TRUE,
           in_module |-> is_in_module(scope_in.module, scope_in.target_modules),
           visited |-> should_be_visited(scope_in.module, scope_in.target_modules)]
    /\ UNCHANGED <<walker_vars, extract_vars, merge_vars, enrich_vars, filter_vars,
                   app, install, path_vars, scope_in, merge_again>>

NextScope == CheckScope

SpecScope == InitScope /\ [][NextScope]_vars

\* some configured prefix is a prefix of the module name followed by a dot
PrefixOfDottedName(module, target_modules) ==
    \E i \in 1..Len(target_modules) : StartsWith(Append(module, "."), target_modules[i])

\* C28: a module is in scope if and only if its name is __main__ or some
\* configured prefix is a prefix of the name followed by a dot, and its
\* source file is not inside the standard-library path.
C28_InScopeIff ==
    scope_out.done =>
        (scope_out.visited <=>
            /\ \/ scope_in.module = MainModule
               \/ PrefixOfDottedName(scope_in.module, scope_in.target_modules)
            /\ ~is_stdlib(scope_in.module))

(***************************************************************************)
(* Properties of definitions that share a name (SpecCalls).                *)
(***************************************************************************)
\* the raise sites memoized for func are those of the definition site
MemoizedAs(func, site) == func \in DOMAIN visited /\ visited[func] = <<site>>

\* C29: the body analysed and memoized for a called function is the first
\* definition of its name in breadth-first order of its module.  Svc.m and
\* L.m share the name m and Svc comes first: the call x.m() with x of class
\* L and the call x.m() with x of class Svc both contribute the raise site
\* of Svc.m, which is what is memoized for L.m.  helper and K.helper share
\* the name helper and the module-level definition comes first: the call
\* k.helper() contributes the raise site of helper, memoized for K.helper.
C29_FirstDefinitionOfTheName ==
    /\ Returning("call_L") => Returned = {"Svc.m"} /\ MemoizedAs("L.m", "Svc.m")
    /\ Returning("call_param") => Returned = {"Svc.m"} /\ MemoizedAs("Svc.m", "Svc.m")
    /\ Returning("k_helper") => Returned = {"helper"} /\ MemoizedAs("K.helper", "helper")

C29_Witness ==
    /\ Returning("call_L")
    /\ "Svc.m" \in Returned
    /\ MemoizedAs("L.m", "Svc.m")

(***************************************************************************)
(* Properties of a repeated merge (SpecMerge).                             *)
(***************************************************************************)
\* the responses of the route's operation after the second merge
MergedAgainResponses ==
    merge_again.doc.paths[<<MergeRoutePath.path, MergeRoutePath.methods[1]>>]

\* the number of times a reference occurs in a list of schemas
Occurrences(ref, schemas) == Cardinality({k \in 1..Len(schemas) : schemas[k] = ref})

\* C30: the names already added are remembered for one merge invocation
\* only: when the merge runs again on the document it has filled, the
\* response under the status of each merged site is a union that starts
\* with what the first merge left and holds the site's reference once more.
C30_SecondMergeAppendsAgain ==
    (merge_again.done /\ ~merge_again.raised) =>
        \A i \in 1..Len(merge_in.exceptions) :
            FirstOfName(i) =>
                LET first == MergedResponses[SchemaAt(i).status_code]
                    second == MergedAgainResponses[SchemaAt(i).status_code]
                    ref == SchemaAt(i).schema_name
                IN  /\ second.anyOf
                    /\ SubSeq(second.schemas, 1, Len(first.schemas)) = first.schemas
                    /\ Occurrences(ref, first.schemas) >= 1
                    /\ Occurrences(ref, second.schemas) = Occurrences(ref, first.schemas) + 1

C30_Witness ==
    /\ merge_again.done
    /\ ~merge_again.raised
    /\ \E i \in 1..Len(merge_in.exceptions) :
          /\ FirstOfName(i)
          /\ ~MergedResponses[SchemaAt(i).status_code].anyOf
          /\ MergedAgainResponses[SchemaAt(i).status_code].schemas
                = <<SchemaAt(i).schema_name, SchemaAt(i).schema_name>>

====
